---- MODULE Spec2Model ----
(***************************************************************************)
(* Model of the itinerary construction engine of NavPlan:                  *)
(*   - the Schedule Builder  (backend/services/schedule_service.py)        *)
(*   - the Place Selector    (backend/services/ai_service.py)              *)
(*   - POI discovery         (backend/services/public_data_service.py)     *)
(*                                                                         *)
(* Conventions.                                                            *)
(*   Time: a datetime of the request's day is the number of minutes since  *)
(*     00:00 of that day; an "HH:MM" string is the pair <<HH, MM>>.         *)
(*   Coordinates: integers in units of 1/10000 degree.  All places of *)
(*     one request lie on one great circle (the equator, or one meridian), *)
(*     for which the haversine formula is exactly R * |angle|.             *)
(*   Distances: the float distance_km of the code is carried in whole      *)
(*     millimetres.                                                        *)
(*   Python lists are sequences; Python's 0-based index i is i+1 here.     *)
(***************************************************************************)
EXTENDS Integers, Sequences, FiniteSets, TLC

VARIABLES
    sched_in,     \* arguments of the last generate_schedule call
    sched_out,    \* what that call returned (a Schedule) or raised
    sel_in,       \* arguments of the last optimize_place_order call
    sel_mid,      \* its filtered_other_places, once Step 1 has run
    sel_out,      \* what that call returned
    cache,        \* the public_pois collection, in insertion order
    geoapify_api_key,  \* whether the place-data provider is configured
    disc,         \* the search_pois_near_location calls
    est,          \* a pair of estimate_travel_time calls for one travel mode
    req,          \* the generate_schedule_from_location request being served
    sreq,         \* the create_schedule request being served
    archive,      \* one archive list and the save_schedule_to_archive requests for it
    ranking       \* one _apply_intelligent_ranking call: its pool and its output

vars == <<sched_in, sched_out, sel_in, sel_mid, sel_out, cache, geoapify_api_key, disc, est, req,
          sreq, archive, ranking>>

(***************************************************************************)
(* Bounds of the model.                                                    *)
(***************************************************************************)
MaxPlaces == 3          \* longest ordered place list handed to the builder
MaxCandidates == 4      \* most candidate places handed to the selector
MaxIndices == 2         \* longest index list in the planning collaborator's answer
MaxCalls == 2           \* discovery calls in one behaviour
MaxDistanceSteps == 12  \* longest estimated distance, in steps of 208.5 m

(***************************************************************************)
(* Small arithmetic helpers.                                               *)
(***************************************************************************)
Abs(x) == IF x < 0 THEN -x ELSE x
Max(a, b) == IF a >= b THEN a ELSE b
Min(a, b) == IF a <= b THEN a ELSE b
\* math.ceil(a / b) for a >= 0, b > 0
CeilDiv(a, b) == (a + b - 1) \div b

RECURSIVE SeqSum(_)
SeqSum(s) == IF s = <<>> THEN 0 ELSE Head(s) + SeqSum(Tail(s))

\* every sequence over S of length 0..n without a repeated element
DistinctSeqs(S, n) ==
    UNION { { s \in [1..k -> S] : \A a, b \in 1..k : a # b => s[a] # s[b] } : k \in 0..n }

(***************************************************************************)
(* schedule_service.py: constants                                          *)
(***************************************************************************)
DEFAULT_VISIT_DURATION_MINUTES ==
    [ restaurant |-> 90, cafe |-> 45, bar |-> 60, museum |-> 120,
      art_gallery |-> 90, park |-> 60, shopping_mall |-> 90,
      tourist_attraction |-> 90, amusement_park |-> 180, zoo |-> 180,
      aquarium |-> 120, church |-> 45, default |-> 60 ]

TRAVEL_BUFFER_MINUTES == 0
EARTH_RADIUS_KM == 6371

TravelModes == {"walking", "bicycling", "driving", "transit"}

TRAVEL_SPEED_KM_PER_HOUR ==
    [ walking |-> 5, bicycling |-> 15, driving |-> 40, transit |-> 25 ]

\* Millimetres of great-circle arc per coordinate unit (1/10000 degree):
\* EARTH_RADIUS_KM * pi / 180 km per degree, i.e. 11119.49 mm per unit.
ArcMmPerUnit == (EARTH_RADIUS_KM * 314159) \div 180000

(***************************************************************************)
(* schedule_service.py: pure helpers                                       *)
(***************************************************************************)
\* str.lower() on the place-type strings the model uses
Lower(s) ==
    CASE s = "Park" -> "park"
      [] s = "CAFE" -> "cafe"
      [] OTHER -> s

\* get_visit_duration(place_types): the first truthy type found in the table
get_visit_duration(place_types) ==
    LET hits == { k \in 1..Len(place_types) :
                    /\ place_types[k] # ""
                    /\ Lower(place_types[k]) \in DOMAIN DEFAULT_VISIT_DURATION_MINUTES }
    IN  IF hits = {}
        THEN DEFAULT_VISIT_DURATION_MINUTES["default"]
        ELSE LET k == CHOOSE h \in hits : \A g \in hits : h <= g
             IN  DEFAULT_VISIT_DURATION_MINUTES[Lower(place_types[k])]

\* haversine_distance(lat1, lon1, lat2, lon2), in millimetres.  On a meridian
\* (equal longitudes) a = sin^2(dlat/2), so c = |dlat|; on the equator
\* (both latitudes 0) a = sin^2(dlon/2), so c = |dlon|.
haversine_distance(lat1, lon1, lat2, lon2) ==
    CASE lon1 = lon2 -> Abs(lat2 - lat1) * ArcMmPerUnit
      [] lat1 = 0 /\ lat2 = 0 -> Abs(lon2 - lon1) * ArcMmPerUnit

\* (mutant) the estimate without its minimum travel time
estimate_travel_time_no_floor(distance_mm, travel_mode) ==
    CeilDiv(distance_mm * 60, TRAVEL_SPEED_KM_PER_HOUR[travel_mode] * 1000000)

\* (mutant) the estimate with a minimum travel time for walking only
estimate_travel_time_walking_floor(distance_mm, travel_mode) ==
    Max(IF travel_mode = "walking" THEN 5 ELSE 0,
        estimate_travel_time_no_floor(distance_mm, travel_mode))

\* estimate_travel_time(distance_km, travel_mode), distance in millimetres:
\* ceil(distance_km / speed * 60), floored at 5 (walking) or 3 minutes
estimate_travel_time(distance_mm, travel_mode) ==
    LET speed == IF travel_mode \in DOMAIN TRAVEL_SPEED_KM_PER_HOUR
                 THEN TRAVEL_SPEED_KM_PER_HOUR[travel_mode]
                 ELSE TRAVEL_SPEED_KM_PER_HOUR["walking"]
        travel_mins == CeilDiv(distance_mm * 60, speed * 1000000)
        min_time == IF travel_mode = "walking" THEN 5 ELSE 3
    IN  Max(min_time, travel_mins)

\* get_fallback_duration(travel_mode)
get_fallback_duration(travel_mode) ==
    CASE travel_mode = "walking" -> 20
      [] travel_mode = "bicycling" -> 12
      [] travel_mode = "driving" -> 10
      [] travel_mode = "transit" -> 15
      [] OTHER -> 15

\* datetime.strftime('%H:%M') of a datetime given as minutes since the
\* request day's midnight
strftime_HM(t) == << (t \div 60) % 24, t % 60 >>

\* "HH:MM" -> minutes since midnight (map(int, s.split(':')))
parse_HM(hm) == hm[1] * 60 + hm[2]

(***************************************************************************)
(* schedule_service.py: calculate_travel_data                              *)
(*                                                                         *)
(* replies[k] is what the routing capability answers to the request for    *)
(* leg k, if that request is made:                                         *)
(*   kind "ok"         status OK with a route (duration_seconds, ...)      *)
(*   kind "http_error" an HTTP status other than 200                       *)
(*   kind "no_route"   a status other than OK, or no routes                *)
(*   kind "denied"     status REQUEST_DENIED                               *)
(*   kind "exception"  the request raised (time-out, connection error)     *)
(***************************************************************************)
\* (mutant) a rejected credential is treated like any other failed leg
RECURSIVE travel_legs_retry(_, _, _, _, _)
travel_legs_retry(places, travel_mode, replies, i, travel_data) ==
    IF i > Len(places) - 1
    THEN travel_data
    ELSE
      LET origin == places[i]
          destination == places[i + 1]
          distance_mm == haversine_distance(origin.lat, origin.lng,
                                            destination.lat, destination.lng)
          estimate == [ duration_seconds |-> estimate_travel_time(distance_mm, travel_mode) * 60,
                        distance_meters  |-> distance_mm \div 1000,
                        polyline         |-> "" ]
      IN
        IF origin.lat = 0 \/ origin.lng = 0 \/ destination.lat = 0 \/ destination.lng = 0
        THEN \* "Invalid coordinates": no request, fixed fallback
             travel_legs_retry(places, travel_mode, replies, i + 1,
                 Append(travel_data,
                        [ duration_seconds |-> get_fallback_duration(travel_mode) * 60,
                          distance_meters  |-> 5000,
                          polyline         |-> "" ]))
        ELSE CASE replies[i].kind = "exception" -> travel_data
               [] replies[i].kind = "http_error" ->
                    travel_legs_retry(places, travel_mode, replies, i + 1, Append(travel_data, estimate))
               [] replies[i].kind = "denied" ->
                    travel_legs_retry(places, travel_mode, replies, i + 1, Append(travel_data, estimate))
               [] replies[i].kind = "no_route" ->
                    travel_legs_retry(places, travel_mode, replies, i + 1, Append(travel_data, estimate))
               [] replies[i].kind = "ok" ->
                    travel_legs_retry(places, travel_mode, replies, i + 1,
                        Append(travel_data,
                               [ duration_seconds |-> replies[i].duration_seconds,
                                 distance_meters  |-> replies[i].distance_meters,
                                 polyline         |-> "enc" ]))

RECURSIVE travel_legs(_, _, _, _, _)
travel_legs(places, travel_mode, replies, i, travel_data) ==
    IF i > Len(places) - 1
    THEN travel_data
    ELSE
      LET origin == places[i]
          destination == places[i + 1]
          distance_mm == haversine_distance(origin.lat, origin.lng,
                                            destination.lat, destination.lng)
          estimate == [ duration_seconds |-> estimate_travel_time(distance_mm, travel_mode) * 60,
                        distance_meters  |-> distance_mm \div 1000,
                        polyline         |-> "" ]
      IN
        IF origin.lat = 0 \/ origin.lng = 0 \/ destination.lat = 0 \/ destination.lng = 0
        THEN \* "Invalid coordinates": no request, fixed fallback
             travel_legs(places, travel_mode, replies, i + 1,
                 Append(travel_data,
                        [ duration_seconds |-> get_fallback_duration(travel_mode) * 60,
                          distance_meters  |-> 5000,
                          polyline         |-> "" ]))
        ELSE CASE replies[i].kind = "exception" -> travel_data
               [] replies[i].kind = "http_error" ->
                    travel_legs(places, travel_mode, replies, i + 1, Append(travel_data, estimate))
               [] replies[i].kind = "denied" -> <<>>
               [] replies[i].kind = "no_route" ->
                    travel_legs(places, travel_mode, replies, i + 1, Append(travel_data, estimate))
               [] replies[i].kind = "ok" ->
                    travel_legs(places, travel_mode, replies, i + 1,
                        Append(travel_data,
                               [ duration_seconds |-> replies[i].duration_seconds,
                                 distance_meters  |-> replies[i].distance_meters,
                                 polyline         |-> "enc" ]))

calculate_travel_data(places, travel_mode, api_key, replies) ==
    IF ~api_key THEN <<>> ELSE travel_legs(places, travel_mode, replies, 1, <<>>)

\* the legs of one calculate_travel_data call for which a request is sent
RECURSIVE requested_legs(_, _, _, _)
requested_legs(places, replies, i, requested) ==
    IF i > Len(places) - 1
    THEN requested
    ELSE IF places[i].lat = 0 \/ places[i].lng = 0 \/ places[i + 1].lat = 0 \/ places[i + 1].lng = 0
    THEN requested_legs(places, replies, i + 1, requested)
    ELSE IF replies[i].kind = "exception" \/ replies[i].kind = "denied"
    THEN requested \cup {i}
    ELSE requested_legs(places, replies, i + 1, requested \cup {i})


(***************************************************************************)
(* schedule_service.py: generate_schedule                                  *)
(***************************************************************************)
\* ScheduleItem.travel_to_next = None
NoSegment ==
    [ set |-> FALSE, start_location |-> <<0, 0>>, end_location |-> <<0, 0>>,
      distance |-> 0, duration |-> 0, polyline |-> "" ]

\* "Check for AI-suggested duration first, fall back to default"
\* (duration_minutes 0 stands for an absent or falsy value)
visit_duration_of(place) ==
    IF place.duration_minutes <= 0
    THEN get_visit_duration(<<place.placeType>>)
    ELSE place.duration_minutes

\* (mutant) the stop threshold below the 15-minute floor of a shrunk visit
insufficient_time_lax(remaining_minutes) == remaining_minutes < 5

\* "if remaining_minutes < 15: break"
insufficient_time(remaining_minutes) == remaining_minutes < 15

\* "adjusted_duration = max(15, int(remaining_minutes - 5))"
adjusted_duration(remaining_minutes) == Max(15, remaining_minutes - 5)

\* ScheduleItem's validation of duration_minutes: Field(..., gt=0, le=480)
valid_item_duration(duration_minutes) ==
    duration_minutes > 0 /\ duration_minutes <= 480

\* One iteration of "for i, place in enumerate(places)".  st carries the
\* loop's variables; st.brk records a break, st.error a raised exception.
\* The loop breaks on "if travel_end_time > end_datetime" and on the "Final
\* check: if we've reached or exceeded end time, stop".
schedule_iteration(places, travel_data, travel_mode, end_datetime, st) ==
    LET i == st.i
        place == places[i]
        default_or_ai == visit_duration_of(place)
        projected_end_time == st.current_datetime + default_or_ai
        remaining_minutes == end_datetime - st.current_datetime
        exceeds == projected_end_time > end_datetime
    IN
      IF exceeds /\ insufficient_time(remaining_minutes)
      THEN [st EXCEPT !.brk = TRUE]
      ELSE
        LET visit_duration_minutes ==
                IF exceeds THEN adjusted_duration(remaining_minutes) ELSE default_or_ai
            visit_start_datetime == st.current_datetime
            visit_end_datetime == visit_start_datetime + visit_duration_minutes
            schedule_item ==
                [ place_id         |-> place.id,
                  start_time       |-> strftime_HM(visit_start_datetime),
                  end_time         |-> strftime_HM(visit_end_datetime),
                  duration_minutes |-> visit_duration_minutes,
                  travel_to_next   |-> NoSegment,
                  ai_review        |-> place.ai_review,
                  placeType        |-> place.placeType ]
        IN
          IF ~valid_item_duration(visit_duration_minutes)
          THEN \* ScheduleItem(...) raises a validation error
               [st EXCEPT !.error = TRUE]
          ELSE IF i < Len(places)
          THEN
            LET next_place == places[i + 1]
                routed == travel_data # <<>> /\ i <= Len(travel_data)
                distance_mm == haversine_distance(place.lat, place.lng,
                                                  next_place.lat, next_place.lng)
                travel_time_minutes ==
                    IF routed THEN CeilDiv(travel_data[i].duration_seconds, 60)
                    ELSE estimate_travel_time(distance_mm, travel_mode)
                distance_meters ==
                    IF routed THEN travel_data[i].distance_meters
                    ELSE distance_mm \div 1000
                polyline == IF routed THEN travel_data[i].polyline ELSE ""
                travel_end_time == visit_end_datetime + travel_time_minutes
                route_segment ==
                    [ set            |-> TRUE,
                      start_location |-> <<place.lat, place.lng>>,
                      end_location   |-> <<next_place.lat, next_place.lng>>,
                      distance       |-> distance_meters,
                      duration       |-> travel_time_minutes * 60,
                      polyline       |-> polyline ]
                next_datetime ==
                    visit_end_datetime + travel_time_minutes + TRAVEL_BUFFER_MINUTES
            IN
              IF travel_end_time > end_datetime
              THEN [st EXCEPT !.schedule_items = Append(@, schedule_item),
                              !.brk = TRUE]
              ELSE [st EXCEPT
                      !.schedule_items =
                          Append(@, [schedule_item EXCEPT !.travel_to_next = route_segment]),
                      !.total_distance_meters = @ + distance_meters,
                      !.current_datetime = next_datetime,
                      !.i = i + 1,
                      !.brk = (next_datetime >= end_datetime)]
          ELSE [st EXCEPT
                  !.schedule_items = Append(@, schedule_item),
                  !.current_datetime = visit_end_datetime,
                  !.i = i + 1,
                  !.brk = (visit_end_datetime >= end_datetime)]

\* (mutant) a place that does not fit as it is gets skipped, not shrunk
RECURSIVE schedule_loop_skipping(_, _, _, _, _)
schedule_loop_skipping(places, travel_data, travel_mode, end_datetime, st) ==
    IF st.i > Len(places) \/ st.brk \/ st.error
    THEN st
    ELSE IF st.current_datetime + visit_duration_of(places[st.i]) > end_datetime
    THEN schedule_loop_skipping(places, travel_data, travel_mode, end_datetime,
                                [st EXCEPT !.i = st.i + 1])
    ELSE schedule_loop_skipping(places, travel_data, travel_mode, end_datetime,
             schedule_iteration(places, travel_data, travel_mode, end_datetime, st))

RECURSIVE schedule_loop(_, _, _, _, _)
schedule_loop(places, travel_data, travel_mode, end_datetime, st) ==
    IF st.i > Len(places) \/ st.brk \/ st.error
    THEN st
    ELSE schedule_loop(places, travel_data, travel_mode, end_datetime,
             schedule_iteration(places, travel_data, travel_mode, end_datetime, st))

\* "Add a dummy travel segment to the last place for map display purposes"
add_dummy_segment(places, schedule_items) ==
    IF schedule_items = <<>> THEN schedule_items
    ELSE
      LET n == Len(schedule_items)
          last_item == schedule_items[n]
      IN  IF ~last_item.travel_to_next.set /\ places # <<>> /\ n <= Len(places)
          THEN [schedule_items EXCEPT ![n].travel_to_next =
                  [ set            |-> TRUE,
                    start_location |-> <<places[n].lat, places[n].lng>>,
                    end_location   |-> <<places[n].lat, places[n].lng>>,
                    distance       |-> 0,
                    duration       |-> 0,
                    polyline       |-> "" ]]
          ELSE schedule_items

\* generate_schedule's total: "from start to end of last activity", replaced
\* by the window span when the loop ran past the window end;
\* calculate_total_duration(start_datetime, end_datetime) is int(seconds / 60)
total_duration(schedule_items, start_datetime, current_datetime, end_datetime) ==
    IF schedule_items # <<>>
    THEN IF current_datetime > end_datetime
         THEN end_datetime - start_datetime
         ELSE current_datetime - start_datetime
    ELSE 0

\* The result: status "ok" is the returned Schedule, status "error" the
\* HTTPException(500) raised from the except clause.  at_index and
\* at_datetime are the loop's i and current_datetime when the loop was left.
generate_schedule(places, start_time_str, travel_mode, end_time_str, api_key, replies) ==
    LET start_datetime == parse_HM(start_time_str)
        end_datetime == parse_HM(end_time_str)
        travel_data == IF Len(places) > 1 /\ api_key
                       THEN calculate_travel_data(places, travel_mode, api_key, replies)
                       ELSE <<>>
        st == schedule_loop(places, travel_data, travel_mode, end_datetime,
                  [ i |-> 1, current_datetime |-> start_datetime,
                    schedule_items |-> <<>>, total_distance_meters |-> 0,
                    brk |-> FALSE, error |-> FALSE ])
        schedule_items == add_dummy_segment(places, st.schedule_items)
        total_duration_minutes ==
            total_duration(schedule_items, start_datetime, st.current_datetime, end_datetime)
    IN
      IF st.error \/ total_duration_minutes < 0 \/ st.total_distance_meters < 0
      THEN [ status |-> "error", items |-> <<>>,
             total_duration_minutes |-> 0, total_distance_meters |-> 0,
             at_index |-> st.i, at_datetime |-> st.current_datetime ]
      ELSE [ status |-> "ok",
             items |-> schedule_items,
             total_duration_minutes |-> total_duration_minutes,
             total_distance_meters |-> st.total_distance_meters,
             at_index |-> st.i, at_datetime |-> st.current_datetime ]

(***************************************************************************)
(* Inputs of the Schedule Builder.                                         *)
(***************************************************************************)
\* Candidate places: stop along the request's line (pos), raw place type,
\* and the duration the planning collaborator attached (0: none attached).
SchedulePlacePool ==
    { [ id |-> "p1", placeType |-> "restaurant",        duration_minutes |-> 0,   pos |-> 0   ],
      [ id |-> "p2", placeType |-> "cafe",              duration_minutes |-> 0,   pos |-> 10  ],
      [ id |-> "p3", placeType |-> "museum",            duration_minutes |-> 0,   pos |-> 20  ],
      [ id |-> "p4", placeType |-> "Park",              duration_minutes |-> 0,   pos |-> 400 ],
      [ id |-> "p5", placeType |-> "bar",               duration_minutes |-> 25,  pos |-> 70  ],
      [ id |-> "p6", placeType |-> "point_of_interest", duration_minutes |-> 500, pos |-> 45  ],
      [ id |-> "p7", placeType |-> "",                  duration_minutes |-> 700, pos |-> 30  ] }

\* the lists of place dictionaries generate_schedule receives
SchedulePlaceLists(line) ==
    { [ k \in DOMAIN s |->
          [ id |-> s[k].id, placeType |-> s[k].placeType,
            duration_minutes |-> s[k].duration_minutes, ai_review |-> "",
            lat |-> IF line = "equator" THEN 0 ELSE s[k].pos,
            lng |-> IF line = "equator" THEN s[k].pos ELSE 70000 ] ] :
        s \in DistinctSeqs(SchedulePlacePool, MaxPlaces) }

RouteReplies ==
    { [ kind |-> "ok",         duration_seconds |-> 90,   distance_meters |-> 100  ],
      [ kind |-> "ok",         duration_seconds |-> 7200, distance_meters |-> 9000 ],
      [ kind |-> "http_error", duration_seconds |-> 0,    distance_meters |-> 0    ],
      [ kind |-> "no_route",   duration_seconds |-> 0,    distance_meters |-> 0    ],
      [ kind |-> "denied",     duration_seconds |-> 0,    distance_meters |-> 0    ],
      [ kind |-> "exception",  duration_seconds |-> 0,    distance_meters |-> 0    ] }

NoSchedule ==
    [ status |-> "none", items |-> <<>>,
      total_duration_minutes |-> 0, total_distance_meters |-> 0,
      at_index |-> 0, at_datetime |-> 0 ]

(***************************************************************************)
(* Values of the variables of a component that has not been called.        *)
(***************************************************************************)
NoneValue == "<None>"

NoScheduleCall ==
    [ places |-> <<>>, start_time |-> <<9, 0>>, end_time |-> <<19, 0>>,
      travel_mode |-> "walking", api_key |-> FALSE, replies |-> <<>> ]

NoAnswer ==
    [ kind |-> "unconfigured", selected_place_indices |-> <<>>, ordered_indices |-> <<>>,
      place_reviews |-> [ is_list |-> FALSE, entries |-> <<>> ],
      place_durations |-> <<>>, day_overview |-> NoneValue ]

NoSelectorCall ==
    [ places |-> <<>>,
      preferences |-> [ present |-> FALSE, must_include |-> <<>>, max_places |-> 12,
                        balance_mode |-> "balanced", meal_requirements |-> FALSE ],
      prompt_text |-> NoneValue ]

IdleCall ==
    [ pc |-> "idle",
      args |-> [ centre |-> [ latitude |-> 0, longitude |-> 0 ], radius_meters |-> 5000,
                 categories |-> <<>>, search_text |-> NoneValue, limit |-> 50 ],
      db_up |-> TRUE, location_pois |-> 0,
      existing_pois |-> <<>>, reply |-> "none", path |-> "none", pois |-> <<>> ]

NoDiscovery == [ c \in 1..MaxCalls |-> IdleCall ]

NoFiltering == [ stage |-> "start", filtered_other_places |-> <<>> ]

NoEstimate ==
    [ pc |-> "idle", travel_mode |-> "walking",
      distance_1 |-> 0, distance_2 |-> 0, minutes_1 |-> 0, minutes_2 |-> 0 ]

NoRequest ==
    [ pc |-> "idle", latitude |-> 0, longitude |-> 0, radius_meters |-> 5000,
      categories |-> <<>>, max_places |-> 20, prompt |-> NoneValue,
      include_current_location |-> FALSE,
      attempt |-> 0, search_radius |-> 0, nearby_pois |-> <<>>,
      status_code |-> 0, detail |-> "none", total_pois |-> 0,
      schedule |-> NoSchedule, original_place_count |-> 0, selected_place_count |-> 0 ]

NoCreateRequest ==
    [ pc |-> "idle", places |-> <<>>, day_overview |-> NoneValue,
      preferences |-> NoSelectorCall.preferences, prompt |-> NoneValue,
      optimize_started |-> FALSE, generate_started |-> FALSE,
      optimized_places |-> <<>>, optimized_overview |-> NoneValue,
      status_code |-> 0, detail |-> "none", schedule |-> NoSchedule,
      selected_place_count |-> 0 ]

NoArchive == [ saved_schedules |-> <<>>, saves |-> <<>>, started |-> 0 ]

NoRanking ==
    [ pc |-> "idle", pois |-> <<>>, latitude |-> 0, longitude |-> 0, categories |-> <<>>,
      enhanced_pois |-> <<>> ]

NoSelection ==
    [ status |-> "none", places |-> <<>>, day_overview |-> NoneValue, ai |-> NoAnswer ]

(***************************************************************************)
(* The Schedule Builder as a state machine: a request arrives (Init) and   *)
(* generate_schedule answers it.                                           *)
(***************************************************************************)
\* A request's places lie on the equator (latitude 0, longitude pos) or on
\* the meridian of 7 degrees east (latitude pos, longitude 70000 units).
\* The time windows have start < end, as "HH:MM" pairs.  There is one reply
\* per leg for which a routing request can be made.
InitSchedule ==
    /\ \E line \in {"equator", "meridian"},
          w \in { << <<9, 0>>,   <<19, 0>>  >>,
                  << <<9, 0>>,   <<11, 45>> >>,
                  << <<9, 0>>,   <<10, 40>> >>,
                  << <<22, 30>>, <<23, 59>> >> },
          travel_mode \in {"walking", "driving"}, api_key \in BOOLEAN :
         \E places \in SchedulePlaceLists(line) :
           \E replies \in IF api_key /\ Len(places) > 1 /\ line = "meridian"
                           THEN [ 1..(Len(places) - 1) -> RouteReplies ]
                           ELSE { <<>> } :
             sched_in = [ places |-> places, start_time |-> w[1], end_time |-> w[2],
                          travel_mode |-> travel_mode, api_key |-> api_key,
                          replies |-> replies ]
    /\ sched_out = NoSchedule
    /\ sel_in = NoSelectorCall
    /\ sel_mid = NoFiltering
    /\ sel_out = NoSelection
    /\ cache = <<>>
    /\ geoapify_api_key = FALSE
    /\ disc = NoDiscovery
    /\ est = NoEstimate
    /\ sreq = NoCreateRequest
    /\ archive = NoArchive
    /\ ranking = NoRanking
    /\ req = NoRequest

\* generate_schedule(places, start_time_str, travel_mode, day_overview, end_time_str)
GenerateSchedule ==
    /\ sched_out.status = "none"
    /\ sched_out' = generate_schedule(sched_in.places, sched_in.start_time,
                                      sched_in.travel_mode, sched_in.end_time,
                                      sched_in.api_key, sched_in.replies)
    /\ UNCHANGED <<sched_in, sel_in, sel_mid, sel_out, cache, geoapify_api_key, disc, est, req, sreq, archive, ranking>>

NextSchedule == GenerateSchedule

SpecSchedule == InitSchedule /\ [][NextSchedule]_vars

(***************************************************************************)
(* Properties of the Schedule Builder (checked under SpecSchedule).        *)
(***************************************************************************)
SchedReturned == sched_out.status = "ok"
StartInstant(item) == parse_HM(item.start_time)
EndInstant(item) == parse_HM(item.end_time)
WindowStart == parse_HM(sched_in.start_time)
WindowEnd == parse_HM(sched_in.end_time)

\* C1: in every returned Schedule the item start instants are strictly
\* increasing, each item ends no later than the next one starts, and the last
\* item ends no later than the window end.
C1_TimeOrderedWithinWindow ==
    SchedReturned =>
      LET items == sched_out.items
          n == Len(items)
      IN  /\ \A k \in 1..(n - 1) :
                /\ StartInstant(items[k]) < StartInstant(items[k + 1])
                /\ EndInstant(items[k]) <= StartInstant(items[k + 1])
          /\ n > 0 => EndInstant(items[n]) <= WindowEnd

\* C1 witness: a returned schedule of three items, reached over routed and
\* estimated legs, whose last visit was shrunk to end inside the window.
C1_Witness ==
    /\ SchedReturned
    /\ Len(sched_out.items) = 3
    /\ sched_out.items[3].duration_minutes < visit_duration_of(sched_in.places[3])
    /\ sched_out.items[1].travel_to_next.polyline = "enc"

\* C5 (as claimed): totalDurationMinutes of every returned Schedule is the
\* elapsed time from the first item's start to the last item's end.
C5_TotalIsFirstStartToLastEnd ==
    (SchedReturned /\ sched_out.items # <<>>) =>
      sched_out.total_duration_minutes =
          EndInstant(sched_out.items[Len(sched_out.items)]) - StartInstant(sched_out.items[1])

\* C6 (as claimed): a place whose projected end passes the window end is left
\* out, ending the schedule without an error, when fewer than 15 minutes
\* remain, and is otherwise kept with duration max(15, remaining - 5).
C6_ShrinkOrStop ==
    sched_out.status # "none" =>
      LET places == sched_in.places
          items == sched_out.items
          i == sched_out.at_index
          cur == sched_out.at_datetime
      IN  /\ \A k \in 1..Len(items) :
                LET S == StartInstant(items[k])
                IN  S + visit_duration_of(places[k]) > WindowEnd =>
                        items[k].duration_minutes = Max(15, WindowEnd - S - 5)
          /\ (i <= Len(places) /\ cur + visit_duration_of(places[i]) > WindowEnd) =>
                IF WindowEnd - cur < 15
                THEN SchedReturned /\ Len(items) = i - 1
                ELSE /\ SchedReturned
                     /\ Len(items) = i
                     /\ items[i].place_id = places[i].id
                     /\ items[i].duration_minutes = Max(15, WindowEnd - cur - 5)

\* C7 (as claimed): generate_schedule returns a Schedule, never an error, and
\* every item has 0 < durationMinutes <= 480.
C7_NeverFails ==
    sched_out.status # "none" =>
      /\ SchedReturned
      /\ \A k \in 1..Len(sched_out.items) :
            /\ sched_out.items[k].duration_minutes > 0
            /\ sched_out.items[k].duration_minutes <= 480

\* The haversine fallback for walking, in minutes, between two places.
WalkFallbackMinutes(p, q) ==
    Max(5, CeilDiv(haversine_distance(p.lat, p.lng, q.lat, q.lng) * 60, 5 * 1000000))

\* The C8 scenario: no routing configured, walking, no suggested durations,
\* and the category defaults plus the fallback legs fit in the window.
C8_Scenario ==
    LET places == sched_in.places
        n == Len(places)
    IN  /\ sched_out.status # "none"
        /\ ~sched_in.api_key
        /\ sched_in.travel_mode = "walking"
        /\ n > 0
        /\ \A k \in 1..n : places[k].duration_minutes = 0
        /\ SeqSum([ k \in 1..n |-> get_visit_duration(<<places[k].placeType>>) ])
             + SeqSum([ k \in 1..(n - 1) |-> WalkFallbackMinutes(places[k], places[k + 1]) ])
             <= WindowEnd - WindowStart

C8_ItemsAndTotal ==
    LET places == sched_in.places
        items == sched_out.items
    IN  /\ SchedReturned
        /\ Len(items) = Len(places)
        /\ \A k \in 1..Len(items) :
              /\ items[k].place_id = places[k].id
              /\ items[k].duration_minutes = get_visit_duration(<<places[k].placeType>>)
        /\ sched_out.total_duration_minutes <= WindowEnd - WindowStart

\* C8 (as claimed): in the scenario the Schedule has N items, each with its
\* category default, EACH item's travelToNext is a fallback leg of >= 5
\* minutes, and the total is within the window span.
C8_EveryItemHasFallbackLeg ==
    C8_Scenario =>
      /\ C8_ItemsAndTotal
      /\ \A k \in 1..Len(sched_out.items) :
            /\ sched_out.items[k].travel_to_next.set
            /\ sched_out.items[k].travel_to_next.duration >= 5 * 60

\* C8 (amended): as above, but the fallback leg of >= 5 minutes is on every
\* item except the last; the last item carries the zero self-segment.
C8_AllButLastHaveFallbackLeg ==
    C8_Scenario =>
      LET places == sched_in.places
          items == sched_out.items
          n == Len(items)
      IN  /\ C8_ItemsAndTotal
          /\ \A k \in 1..(n - 1) :
                LET seg == items[k].travel_to_next
                IN  /\ seg.set
                    /\ seg.polyline = ""
                    /\ seg.duration >= 5 * 60
                    /\ seg.duration = 60 * WalkFallbackMinutes(places[k], places[k + 1])
                    /\ seg.distance =
                         haversine_distance(places[k].lat, places[k].lng,
                                            places[k + 1].lat, places[k + 1].lng) \div 1000
                    /\ seg.end_location = <<places[k + 1].lat, places[k + 1].lng>>
          /\ LET seg == items[n].travel_to_next
             IN  seg.set /\ seg.duration = 0 /\ seg.distance = 0
                 /\ seg.start_location = seg.end_location

\* C8 witness: the scenario with three places, one leg longer than the floor.
C8_Witness ==
    /\ C8_Scenario
    /\ Len(sched_out.items) = 3
    /\ \E k \in 1..2 : sched_out.items[k].travel_to_next.duration > 5 * 60

\* the segment from a place to itself the builder gives the last item
SelfSegment(seg, place) ==
    /\ seg.set
    /\ seg.start_location = <<place.lat, place.lng>>
    /\ seg.end_location = <<place.lat, place.lng>>
    /\ seg.distance = 0
    /\ seg.duration = 0

\* C15: in every returned Schedule an item's travel segment leads to the
\* place of the next item; the last item carries only the zero-distance,
\* zero-duration segment from its place to itself, also when the builder
\* stopped before the end of the place list.
C15_SegmentsOnlyBetweenItems ==
    SchedReturned =>
      LET items == sched_out.items
          n == Len(items)
      IN  /\ \A k \in 1..(n - 1) :
                items[k].travel_to_next.set =>
                    items[k].travel_to_next.end_location =
                        <<sched_in.places[k + 1].lat, sched_in.places[k + 1].lng>>
          /\ n > 0 => SelfSegment(items[n].travel_to_next, sched_in.places[n])

\* C17: in every returned Schedule a leg to the next place that the routing
\* capability did not resolve carries the great-circle distance between its
\* two places and the duration estimate_travel_time gives for that distance,
\* wherever the places lie (latitude or longitude 0 included) and whether or
\* not routing is configured.
C17_UnresolvedLegsUseHaversine ==
    SchedReturned =>
      \A k \in DOMAIN sched_out.items :
        LET seg == sched_out.items[k].travel_to_next
            places == sched_in.places
        IN  (/\ k < Len(places)
             /\ seg.set
             /\ seg.end_location = <<places[k + 1].lat, places[k + 1].lng>>
             /\ seg.polyline = "") =>
                LET distance_mm == haversine_distance(places[k].lat, places[k].lng,
                                                      places[k + 1].lat, places[k + 1].lng)
                IN  /\ seg.distance = distance_mm \div 1000
                    /\ seg.duration = estimate_travel_time(distance_mm, sched_in.travel_mode) * 60

\* the legs for which this call sent a routing request
RequestedLegs ==
    IF sched_in.api_key /\ Len(sched_in.places) > 1
    THEN requested_legs(sched_in.places, sched_in.replies, 1, {})
    ELSE {}

\* the requested legs the routing capability answered with REQUEST_DENIED
RejectedLegs == { j \in RequestedLegs : sched_in.replies[j].kind = "denied" }

\* the leg from item k to the place after it is the haversine estimate
EstimatedLeg(k) ==
    LET seg == sched_out.items[k].travel_to_next
        places == sched_in.places
        distance_mm == haversine_distance(places[k].lat, places[k].lng,
                                          places[k + 1].lat, places[k + 1].lng)
    IN  /\ seg.polyline = ""
        /\ seg.distance = distance_mm \div 1000
        /\ seg.duration = estimate_travel_time(distance_mm, sched_in.travel_mode) * 60

C30_ItemsArePrefixOfPlaces ==
    SchedReturned =>
      /\ Len(sched_out.items) <= Len(sched_in.places)
      /\ \A k \in DOMAIN sched_out.items :
            sched_out.items[k].place_id = sched_in.places[k].id

\* C30 witness: three places, the second shrunk to fit, the third left out;
\* and the third alone would have fitted at the start of the window.
C30_Witness ==
    /\ SchedReturned
    /\ Len(sched_in.places) = 3
    /\ Len(sched_out.items) = 2
    /\ sched_out.items[2].duration_minutes < visit_duration_of(sched_in.places[2])
    /\ WindowStart + visit_duration_of(sched_in.places[3]) <= WindowEnd

(***************************************************************************)
(* ai_service.py: the Place Selector.                                      *)
(*   A Python dict is a sequence of [key, value] records in insertion      *)
(*   order; None is the string NoneValue where a string is expected.       *)
(***************************************************************************)
SeqContains(s, x) == \E k \in DOMAIN s : s[k] = x

\* s[:n]
Take(s, n) == SubSeq(s, 1, Min(Max(n, 0), Len(s)))

\* the set of ids of a place list
PlaceIds(places) == { places[k].id : k \in DOMAIN places }

\* d.get(key, default), "key in d", d[key] = value
DictGet(d, key, default) ==
    IF \E k \in DOMAIN d : d[k].key = key
    THEN d[CHOOSE k \in DOMAIN d : d[k].key = key].value
    ELSE default

DictHas(d, key) == \E k \in DOMAIN d : d[k].key = key

DictSet(d, key, value) ==
    IF DictHas(d, key)
    THEN [ k \in DOMAIN d |-> IF d[k].key = key THEN [ key |-> key, value |-> value ] ELSE d[k] ]
    ELSE Append(d, [ key |-> key, value |-> value ])

\* category_mapping, in the order the dictionary is written
category_mapping ==
    << [ key |-> "restaurants", value |-> {"catering.restaurant", "catering.fast_food"} ],
       [ key |-> "cafes",       value |-> {"catering.cafe"} ],
       [ key |-> "museums",     value |-> {"tourism.museum", "tourism.attraction"} ],
       [ key |-> "parks",       value |-> {"leisure.park"} ],
       [ key |-> "shopping",    value |-> {"shop"} ],
       [ key |-> "bars",        value |-> {"catering.bar"} ],
       [ key |-> "attractions", value |-> {"tourism.attraction", "tourism.museum"} ] >>

all_categories == <<"restaurants", "cafes", "museums", "parks", "shopping", "bars">>

\* the first user category whose provider categories hold place_category;
\* "" when the place stays uncategorized (other_places)
user_category_of(place_category) ==
    IF \E k \in DOMAIN category_mapping : place_category \in category_mapping[k].value
    THEN category_mapping[ CHOOSE k \in DOMAIN category_mapping :
                             /\ place_category \in category_mapping[k].value
                             /\ \A j \in 1..(k - 1) : place_category \notin category_mapping[j].value ].key
    ELSE ""

\* meal requirements put 'restaurants' into must_include
must_include_with_meals(must_include, meal_requirements) ==
    IF meal_requirements /\ ~SeqContains(must_include, "restaurants")
    THEN Append(must_include, "restaurants")
    ELSE must_include

\* the limit of a category the user selected
selected_category_limit(category, balance_mode) ==
    IF balance_mode = "focused"
    THEN (IF category \in {"restaurants", "cafes"} THEN 6 ELSE 4)
    ELSE IF balance_mode = "balanced"
    THEN (IF category \in {"restaurants", "cafes"} THEN 4 ELSE 3)
    ELSE 3

RECURSIVE selected_limits(_, _, _)
selected_limits(must_include, balance_mode, limits) ==
    IF must_include = <<>> THEN limits
    ELSE selected_limits(Tail(must_include), balance_mode,
                         DictSet(limits, Head(must_include),
                                 selected_category_limit(Head(must_include), balance_mode)))

RECURSIVE other_limits(_, _, _)
other_limits(categories, balance_mode, limits) ==
    IF categories = <<>> THEN limits
    ELSE other_limits(Tail(categories), balance_mode,
                      IF DictHas(limits, Head(categories)) THEN limits
                      ELSE DictSet(limits, Head(categories),
                                   IF balance_mode # "focused" THEN 1 ELSE 0))

default_category_limits ==
    << [ key |-> "restaurants", value |-> 3 ], [ key |-> "cafes",    value |-> 3 ],
       [ key |-> "museums",     value |-> 2 ], [ key |-> "parks",    value |-> 2 ],
       [ key |-> "shopping",    value |-> 1 ], [ key |-> "bars",     value |-> 1 ] >>

\* category_limits; must_include already holds the meal requirement
category_limits_of(must_include, balance_mode, meal_requirements) ==
    IF must_include # <<>>
    THEN LET chosen == selected_limits(must_include, balance_mode, <<>>)
             meals  == IF meal_requirements /\ DictGet(chosen, "restaurants", 0) < 2
                       THEN DictSet(chosen, "restaurants", 2)
                       ELSE chosen
         IN  other_limits(all_categories, balance_mode, meals)
    ELSE default_category_limits

\* places_by_category[category]
places_by_category(places, category) ==
    SelectSeq(places, LAMBDA p : user_category_of(p.category) = category)

\* available_places: those whose id is not selected yet
not_selected(places, selected_places) ==
    SelectSeq(places, LAMBDA p : p.id \notin PlaceIds(selected_places))

\* list.remove(x); list.insert(0, x)
move_to_front(s, x) ==
    LET first == CHOOSE k \in DOMAIN s : s[k] = x /\ \A j \in 1..(k - 1) : s[j] # x
    IN  <<x>> \o SubSeq(s, 1, first - 1) \o SubSeq(s, first + 1, Len(s))

\* simple_vector_score: the embedding model is not installed, so the
\* places come back in the order they were given
simple_vector_score(places, query) == places

\* Phase 1, the inner loop: add with duplicate prevention
RECURSIVE add_selected(_, _, _)
add_selected(st, category, to_add) ==
    IF to_add = <<>> THEN st
    ELSE LET place == Head(to_add)
         IN  add_selected(
               IF place.id \notin PlaceIds(st.selected_places)
               THEN [ st EXCEPT !.selected_places = Append(@, place),
                                !.category_counts =
                                    DictSet(@, category, DictGet(@, category, 0) + 1) ]
               ELSE st,
               category, Tail(to_add))

\* Phase 1: fill the categories to process, each up to its limit
RECURSIVE fill_must_include(_, _, _, _, _)
fill_must_include(places, query, category_limits, categories_to_process, st) ==
    IF categories_to_process = <<>> THEN st
    ELSE LET category  == Head(categories_to_process)
             limit     == DictGet(category_limits, category, 0)
             available == not_selected(places_by_category(places, category), st.selected_places)
             selected_from_category == Take(simple_vector_score(available, query), limit)
         IN  fill_must_include(places, query, category_limits, Tail(categories_to_process),
                               IF available = <<>> THEN st
                               ELSE add_selected(st, category, selected_from_category))

\* Phase 2, the inner loop: add while slots remain
RECURSIVE add_additional(_, _, _)
add_additional(st, category, to_add) ==
    IF to_add = <<>> THEN st
    ELSE LET place == Head(to_add)
         IN  add_additional(
               IF place.id \notin PlaceIds(st.selected_places) /\ st.remaining_slots > 0
               THEN [ st EXCEPT !.selected_places = Append(@, place),
                                !.remaining_slots = @ - 1,
                                !.category_counts =
                                    DictSet(@, category, DictGet(@, category, 0) + 1) ]
               ELSE st,
               category, Tail(to_add))

\* Phase 2: top up from the categories still below their limit
RECURSIVE fill_remaining(_, _, _)
fill_remaining(places, limits_left, st) ==
    IF limits_left = <<>> \/ st.remaining_slots <= 0 THEN st
    ELSE LET category      == Head(limits_left).key
             limit         == Head(limits_left).value
             current_count == DictGet(st.category_counts, category, 0)
             available     == not_selected(places_by_category(places, category), st.selected_places)
             additional_needed == Min(limit - current_count, st.remaining_slots)
         IN  fill_remaining(places, Tail(limits_left),
                            IF current_count < limit
                            THEN add_additional(st, category, Take(available, additional_needed))
                            ELSE st)

\* preference_based_selection(places, preferences, query)
preference_based_selection(places, preferences, query) ==
    IF places = <<>> THEN places
    ELSE
    LET meal_requirements == preferences.meal_requirements
        must_include    == must_include_with_meals(preferences.must_include, meal_requirements)
        category_limits == category_limits_of(must_include, preferences.balance_mode,
                                              meal_requirements)
        keys            == [ k \in DOMAIN category_limits |-> category_limits[k].key ]
        to_process      == IF must_include # <<>> THEN must_include ELSE keys
        categories_to_process ==
            IF meal_requirements /\ SeqContains(to_process, "restaurants")
            THEN move_to_front(to_process, "restaurants")
            ELSE to_process
        start  == [ selected_places |-> <<>>,
                    category_counts |-> [ k \in DOMAIN keys |-> [ key |-> keys[k], value |-> 0 ] ],
                    remaining_slots |-> 0 ]
        phase1 == fill_must_include(places, query, category_limits, categories_to_process, start)
        slots  == preferences.max_places - Len(phase1.selected_places)
        phase2 == IF slots > 0
                  THEN fill_remaining(places, category_limits,
                                      [ phase1 EXCEPT !.remaining_slots = slots ])
                  ELSE phase1
    IN  phase2.selected_places

\* An index entry of the planning collaborator's answer: a JSON integer or
\* a JSON string.
IntIndex(n) == [ kind |-> "int", int |-> n,  str |-> "" ]
\* isinstance(idx, int) and 0 <= idx < len(places)
valid_int_index(idx, places) == idx.kind = "int" /\ 0 <= idx.int /\ idx.int < Len(places)

\* list(range(n))
Range(n) == [ k \in 1..n |-> k - 1 ]

\* 'word' in place_type.lower(), for the place types of the model
type_contains(place_type, word) ==
    CASE word = "restaurant" -> Lower(place_type) \in {"restaurant", "catering.restaurant"}
      [] word = "food"       -> Lower(place_type) \in {"food", "catering.fast_food"}
      [] word = "museum"     -> Lower(place_type) \in {"museum", "tourism.museum"}
      [] word = "park"       -> Lower(place_type) \in {"park", "leisure.park"}
      [] word = "garden"     -> Lower(place_type) \in {"garden", "leisure.garden"}
      [] OTHER               -> FALSE

\* the fallback review of a place
default_review(place_type) ==
    IF type_contains(place_type, "restaurant") \/ type_contains(place_type, "food")
    THEN "Recommended dining spot for this itinerary."
    ELSE IF type_contains(place_type, "museum")
    THEN "Fascinating cultural experience worth visiting."
    ELSE IF type_contains(place_type, "park") \/ type_contains(place_type, "garden")
    THEN "Beautiful outdoor space perfect for relaxation."
    ELSE "Interesting stop that adds value to your day."

\* review_map: a later entry of the same place id replaces an earlier one
RECURSIVE review_map_of(_, _)
review_map_of(entries, review_map) ==
    IF entries = <<>> THEN review_map
    ELSE review_map_of(Tail(entries),
                       DictSet(review_map, Head(entries).place_id, Head(entries).review))

\* attach reviews: from the answer when it holds a list, else the defaults
attach_reviews(places, place_reviews) ==
    IF place_reviews.is_list
    THEN LET review_map == review_map_of(place_reviews.entries, <<>>)
         IN  [ k \in DOMAIN places |->
                 IF DictHas(review_map, places[k].id)
                 THEN [ places[k] EXCEPT !.ai_review = DictGet(review_map, places[k].id, "") ]
                 ELSE places[k] ]
    ELSE [ k \in DOMAIN places |->
             [ places[k] EXCEPT !.ai_review = default_review(places[k].placeType) ] ]

\* attach the suggested durations that are positive integers
attach_durations(places, place_durations) ==
    [ k \in DOMAIN places |->
        IF DictHas(place_durations, places[k].id) /\ DictGet(place_durations, places[k].id, 0) > 0
        THEN [ places[k] EXCEPT !.duration_minutes = DictGet(place_durations, places[k].id, 0) ]
        ELSE places[k] ]

\* the selection branch: places the collaborator selected, in its order
RECURSIVE map_ordered_indices(_, _, _)
map_ordered_indices(ordered_indices, original_to_filtered, filtered_ordered_indices) ==
    IF ordered_indices = <<>> THEN filtered_ordered_indices
    ELSE LET idx == Head(ordered_indices)
         IN  map_ordered_indices(Tail(ordered_indices), original_to_filtered,
                 IF idx.kind = "int" /\ DictHas(original_to_filtered, idx.int)
                 THEN Append(filtered_ordered_indices, DictGet(original_to_filtered, idx.int, 0))
                 ELSE filtered_ordered_indices)

RECURSIVE original_to_filtered_of(_, _, _)
original_to_filtered_of(valid_selected_indices, i, map) ==
    IF i >= Len(valid_selected_indices) THEN map
    ELSE original_to_filtered_of(valid_selected_indices, i + 1,
                                 DictSet(map, valid_selected_indices[i + 1], i))

select_and_order(places, selected_indices, ordered_indices) ==
    LET valid    == SelectSeq(selected_indices, LAMBDA idx : valid_int_index(idx, places))
        valid_selected_indices ==
            IF valid = <<>> THEN Range(Len(places))
            ELSE [ k \in DOMAIN valid |-> valid[k].int ]
        filtered_places == [ k \in DOMAIN valid_selected_indices |->
                               places[valid_selected_indices[k] + 1] ]
        original_to_filtered == original_to_filtered_of(valid_selected_indices, 0, <<>>)
        mapped   == map_ordered_indices(ordered_indices, original_to_filtered, <<>>)
        filtered_ordered_indices ==
            IF mapped = <<>> THEN Range(Len(filtered_places)) ELSE mapped
    IN  [ k \in DOMAIN filtered_ordered_indices |->
            filtered_places[filtered_ordered_indices[k] + 1] ]

\* the ordering branch: indices (or place ids) the collaborator returned,
\* the missing ones appended when the count differs from len(places)
RECURSIVE valid_indices_of(_, _, _)
valid_indices_of(ordered_indices, places, valid_indices) ==
    IF ordered_indices = <<>> THEN valid_indices
    ELSE LET idx == Head(ordered_indices)
             by_id == { k \in DOMAIN places : places[k].id = idx.str }
         IN  valid_indices_of(Tail(ordered_indices), places,
                 IF valid_int_index(idx, places)
                 THEN Append(valid_indices, idx.int)
                 ELSE IF idx.kind = "str" /\ by_id # {}
                 THEN Append(valid_indices, (CHOOSE k \in by_id : \A j \in by_id : k <= j) - 1)
                 ELSE valid_indices)

order_all(places, ordered_indices) ==
    LET valid_indices == valid_indices_of(ordered_indices, places, <<>>)
        missing_indices == SelectSeq(Range(Len(places)),
                                     LAMBDA i : ~SeqContains(valid_indices, i))
        all_indices == IF Len(valid_indices) # Len(places)
                       THEN valid_indices \o missing_indices
                       ELSE valid_indices
    IN  [ k \in DOMAIN all_indices |-> places[all_indices[k] + 1] ]

\* ai_optimization(places, ...): ai is the configuration of the planning
\* collaborator and its answer
ai_optimization(places, ai) ==
    IF ai.kind = "unconfigured" \/ ai.kind = "error" \/ ai.ordered_indices = <<>>
    THEN [ places |-> places, day_overview |-> NoneValue ]
    ELSE LET optimized_places_list ==
                 IF ai.selected_place_indices # <<>>
                 THEN select_and_order(places, ai.selected_place_indices, ai.ordered_indices)
                 ELSE order_all(places, ai.ordered_indices)
         IN  [ places |-> attach_durations(attach_reviews(optimized_places_list, ai.place_reviews),
                                           ai.place_durations),
               day_overview |-> ai.day_overview ]

\* len(prompt_text.strip()), for the prompts of the model
stripped_length(prompt_text) ==
    CASE prompt_text = ""                     -> 0
      [] prompt_text = "  museums "           -> 7
      [] prompt_text = "a quiet day of art"   -> 18
      [] OTHER                                -> 0

\* preferences or (prompt_text and len(prompt_text.strip()) > 10)
uses_preferences(preferences, prompt_text) ==
    preferences.present \/ (prompt_text # NoneValue /\ stripped_length(prompt_text) > 10)

\* the preferences made up from a prompt when none were given
prompt_preferences ==
    [ present |-> TRUE, must_include |-> <<>>, max_places |-> 12,
      balance_mode |-> "balanced", meal_requirements |-> FALSE ]

has_current_location(places) == places # <<>> /\ places[1].id = "current-location"

\* Step 1 of optimize_place_order
filter_other_places(places, preferences, prompt_text) ==
    LET other_places == IF has_current_location(places) THEN Tail(places) ELSE places
    IN  IF uses_preferences(preferences, prompt_text)
        THEN preference_based_selection(other_places,
                                        IF preferences.present THEN preferences
                                        ELSE prompt_preferences,
                                        IF prompt_text = NoneValue THEN "" ELSE prompt_text)
        ELSE other_places

\* (mutant) only the empty list is returned at once
is_empty_list(places) == Len(places) = 0

\* "if len(places) <= 1: return places, None"
is_short_list(places) == Len(places) <= 1

\* Steps 2 and 3 of optimize_place_order
optimize_and_combine(places, filtered_other_places, ai) ==
    LET optimized == ai_optimization(filtered_other_places, ai)
    IN  [ status |-> "returned",
          places |-> IF has_current_location(places)
                     THEN <<places[1]>> \o optimized.places
                     ELSE optimized.places,
          day_overview |-> optimized.day_overview,
          ai |-> ai ]

(***************************************************************************)
(* Inputs of the Place Selector.                                           *)
(***************************************************************************)
\* Candidate places as the routes hand them over: id, provider category,
\* place type, stop along a line, review and duration (none attached yet).
SelectorCatalogue ==
    << [ id |-> "m1", category |-> "tourism.museum",         placeType |-> "tourism.museum",
         pos |-> 40, ai_review |-> "", duration_minutes |-> 0 ],
       [ id |-> "r1", category |-> "catering.restaurant",    placeType |-> "catering.restaurant",
         pos |-> 10, ai_review |-> "", duration_minutes |-> 0 ],
       [ id |-> "c1", category |-> "catering.cafe",          placeType |-> "catering.cafe",
         pos |-> 30, ai_review |-> "", duration_minutes |-> 0 ],
       [ id |-> "r2", category |-> "catering.fast_food",     placeType |-> "catering.fast_food",
         pos |-> 20, ai_review |-> "", duration_minutes |-> 0 ],
       [ id |-> "x1", category |-> "commercial.supermarket", placeType |-> "commercial.supermarket",
         pos |-> 50, ai_review |-> "", duration_minutes |-> 0 ] >>

\* the marker the location route puts first; it carries no category
CurrentLocation ==
    [ id |-> "current-location", category |-> "unknown", placeType |-> "point_of_interest",
      pos |-> 0, ai_review |-> "", duration_minutes |-> 0 ]

\* candidate lists: up to MaxCandidates consecutive places of the catalogue,
\* with or without the current-location marker in front
CandidateLists ==
    LET n     == Len(SelectorCatalogue)
        lists == { l \in { SubSeq(SelectorCatalogue, a, b) : a \in 1..n, b \in 0..n } :
                     Len(l) <= MaxCandidates }
    IN  lists \cup { <<CurrentLocation>> \o l : l \in lists }

NoPreferences == NoSelectorCall.preferences

\* index lists of the collaborator's answer; 9 is out of range for every list
IndexLists == UNION { [ 1..n -> { IntIndex(0), IntIndex(1), IntIndex(9) } ] : n \in 0..MaxIndices }

\* what the planning collaborator does: no key configured, a failed call or
\* an unparsable answer, or a JSON answer
AiAnswers ==
    { NoAnswer, [ NoAnswer EXCEPT !.kind = "error" ] } \cup
    { [ kind |-> "json", selected_place_indices |-> sel, ordered_indices |-> ord,
        place_reviews |-> payload.place_reviews, place_durations |-> payload.place_durations,
        day_overview |-> payload.day_overview ] :
        sel \in IndexLists, ord \in IndexLists,
        payload \in { [ place_reviews |-> [ is_list |-> FALSE, entries |-> <<>> ],
                        place_durations |-> <<>>, day_overview |-> NoneValue ],
                      [ place_reviews |-> [ is_list |-> TRUE,
                                            entries |-> << [ place_id |-> "r1", review |-> "Great lunch." ] >> ],
                        place_durations |-> << [ key |-> "r1", value |-> 45 ] >>,
                        day_overview |-> "A day of food and art." ] } }

(***************************************************************************)
(* The Place Selector as a state machine: optimize_place_order is called   *)
(* (Init), filters the candidates, then asks the planning collaborator.    *)
(***************************************************************************)
\* The preferences are UserPreferences as the routes turn them into a
\* dictionary, or absent.
InitSelector ==
    /\ \E places \in CandidateLists,
          preferences \in { NoPreferences } \cup
                          [ present : {TRUE},
                            must_include : { <<>>, <<"museums">> },
                            max_places : { 3 },
                            balance_mode : {"focused", "balanced", "diverse"},
                            meal_requirements : BOOLEAN ],
          prompt_text \in { NoneValue, "  museums ", "a quiet day of art" } :
         /\ preferences.present => prompt_text = NoneValue
         /\ sel_in = [ places |-> places, preferences |-> preferences,
                       prompt_text |-> prompt_text ]
    /\ sel_mid = NoFiltering
    /\ sel_out = NoSelection
    /\ sched_in = NoScheduleCall
    /\ sched_out = NoSchedule
    /\ cache = <<>>
    /\ geoapify_api_key = FALSE
    /\ disc = NoDiscovery
    /\ est = NoEstimate
    /\ sreq = NoCreateRequest
    /\ archive = NoArchive
    /\ ranking = NoRanking
    /\ req = NoRequest

\* len(places) <= 1: the input comes back as it is
ReturnShortList ==
    /\ sel_out.status = "none"
    /\ is_short_list(sel_in.places)
    /\ sel_out' = [ status |-> "returned", places |-> sel_in.places,
                    day_overview |-> NoneValue, ai |-> NoAnswer ]
    /\ UNCHANGED <<sel_in, sel_mid, sched_in, sched_out, cache, geoapify_api_key, disc, est, req, sreq, archive, ranking>>

\* Step 1: split off the current location, apply the preferences
FilterOtherPlaces ==
    /\ sel_out.status = "none"
    /\ sel_mid.stage = "start"
    /\ ~is_short_list(sel_in.places)
    /\ sel_mid' = [ stage |-> "filtered",
                    filtered_other_places |->
                        filter_other_places(sel_in.places, sel_in.preferences, sel_in.prompt_text) ]
    /\ UNCHANGED <<sel_in, sel_out, sched_in, sched_out, cache, geoapify_api_key, disc, est, req, sreq, archive, ranking>>

\* Steps 2 and 3: the planning collaborator answers, the result is combined
AiOptimization ==
    /\ sel_out.status = "none"
    /\ sel_mid.stage = "filtered"
    /\ \E ai \in AiAnswers :
         sel_out' = optimize_and_combine(sel_in.places, sel_mid.filtered_other_places, ai)
    /\ UNCHANGED <<sel_in, sel_mid, sched_in, sched_out, cache, geoapify_api_key, disc, est, req, sreq, archive, ranking>>

NextSelector == ReturnShortList \/ FilterOtherPlaces \/ AiOptimization

SpecSelector == InitSelector /\ [][NextSelector]_vars

(***************************************************************************)
(* Properties of the Place Selector (checked under SpecSelector).          *)
(***************************************************************************)
SelReturned == sel_out.status = "returned"

DistinctIds(places) == \A a, b \in DOMAIN places : a # b => places[a].id # places[b].id

\* the places of a list that fall into the restaurant bucket
RestaurantIds(places) ==
    { places[k].id : k \in { j \in DOMAIN places :
                                user_category_of(places[j].category) = "restaurants" } }

\* C2: every list optimize_place_order returns for candidates with pairwise
\* distinct ids holds no place id twice, whatever the planning collaborator
\* answered (repeated indices included).
C2_UniquePlaceIds ==
    (SelReturned /\ DistinctIds(sel_in.places)) => DistinctIds(sel_out.places)

\* C4: with meal requirements set and at least two restaurant-bucket places
\* among the candidates, the list optimize_place_order returns holds at least
\* two restaurant-bucket places.
C4_MealsKeepTwoRestaurants ==
    ( /\ SelReturned
      /\ sel_in.preferences.present
      /\ sel_in.preferences.meal_requirements
      /\ Cardinality(RestaurantIds(sel_in.places)) >= 2 )
    => Cardinality(RestaurantIds(sel_out.places)) >= 2

\* the preferences preference_based_selection was called with
EffectivePreferences ==
    IF sel_in.preferences.present THEN sel_in.preferences ELSE prompt_preferences

\* C9: the list preference_based_selection returns never holds more than
\* max_places places, for every pool, balance mode, must_include list and
\* meal_requirements value.
C9_AtMostMaxPlaces ==
    ( /\ sel_mid.stage = "filtered"
      /\ uses_preferences(sel_in.preferences, sel_in.prompt_text) )
    => Len(sel_mid.filtered_other_places) <= EffectivePreferences.max_places

AnswerAccepted == sel_out.ai.kind = "json" /\ sel_out.ai.ordered_indices # <<>>

\* C18: whenever the planning collaborator's answer is accepted, every place
\* of the selector's output (the current-location marker aside) carries a
\* review: the collaborator's review for its id when the answer has one,
\* otherwise the default review of its place type, also when the answer's
\* review list leaves places out.
C18_EveryPlaceReviewed ==
    (SelReturned /\ AnswerAccepted) =>
        LET review_map == review_map_of(sel_out.ai.place_reviews.entries, <<>>)
        IN  \A k \in DOMAIN sel_out.places :
              LET place == sel_out.places[k]
              IN  place.id # CurrentLocation.id =>
                    place.ai_review =
                        IF DictHas(review_map, place.id)
                        THEN DictGet(review_map, place.id, "")
                        ELSE default_review(place.placeType)

\* what the selector hands to the planning collaborator
DeterministicList == filter_other_places(sel_in.places, sel_in.preferences, sel_in.prompt_text)

\* the deterministic list with the current-location marker put back in front
DeterministicResult ==
    IF has_current_location(sel_in.places)
    THEN <<sel_in.places[1]>> \o DeterministicList
    ELSE DeterministicList

\* the collaborator was asked and gave no answer with a non-empty ordered_indices
NoOrderingGiven ==
    sel_out.ai.kind = "unconfigured" \/ sel_out.ai.kind = "error" \/ sel_out.ai.ordered_indices = <<>>

\* the collaborator gave no valid ordering: no answer, or an ordered_indices
\* without a single index of the list it was given
NoValidOrdering ==
    \/ NoOrderingGiven
    \/ \A k \in DOMAIN sel_out.ai.ordered_indices :
          ~valid_int_index(sel_out.ai.ordered_indices[k], DeterministicList)

\* C22: when the planning collaborator is unconfigured, unreachable, answers
\* with non-JSON or answers without a valid non-empty ordered_indices, the
\* selector returns exactly the deterministic candidate list in its order,
\* the current-location marker first when present, with no day overview.
C22_NoValidOrderingIsFallback ==
    (SelReturned /\ sel_mid.stage = "filtered" /\ NoValidOrdering) =>
        /\ sel_out.places = DeterministicResult
        /\ sel_out.day_overview = NoneValue

\* the places the selector returns after the current-location marker
ReturnedOtherPlaces ==
    IF has_current_location(sel_out.places) THEN Tail(sel_out.places) ELSE sel_out.places

\* route is a greedy nearest-neighbour route over the stops along the line:
\* each place after the first is no farther from its predecessor than any
\* place that comes later in the route
IsGreedyRoute(route) ==
    \A k \in 2..Len(route) : \A j \in (k + 1)..Len(route) :
        Abs(route[k].pos - route[k - 1].pos) <= Abs(route[j].pos - route[k - 1].pos)

\* C23: with 2 or 3 candidate places and no valid ordering from the planning
\* collaborator, the returned order is the greedy nearest-neighbour route:
\* it starts at the first candidate and each next place is the unvisited
\* place closest to the one before it.
C23_SmallListsGetGreedyRoute ==
    (/\ SelReturned
     /\ sel_mid.stage = "filtered"
     /\ NoOrderingGiven
     /\ Len(DeterministicList) \in 2..3) =>
        /\ Len(ReturnedOtherPlaces) = Len(DeterministicList)
        /\ PlaceIds(ReturnedOtherPlaces) = PlaceIds(DeterministicList)
        /\ ReturnedOtherPlaces[1].id = DeterministicList[1].id
        /\ IsGreedyRoute(ReturnedOtherPlaces)

\* the candidate places of the call: its places without the current-location marker
CandidatePool ==
    IF has_current_location(sel_in.places) THEN Tail(sel_in.places) ELSE sel_in.places

\* C28: for every input with at least one place other than the
\* current-location marker, whatever the preferences and the free-text hint
\* and whatever the categories of the places, optimize_place_order returns at
\* least one candidate place.
C28_NonEmptyPoolGivesNonEmptyResult ==
    (SelReturned /\ CandidatePool # <<>>) => ReturnedOtherPlaces # <<>>

\* C29: when the collaborator's answer gives an ordering and no subset
\* selection, every place the collaborator was given is in the selector's
\* output, whatever ordered_indices holds: indices it left out are appended,
\* repeated and unknown indices lose no place.
C29_OrderingLosesNoPlace ==
    (/\ SelReturned
     /\ sel_mid.stage = "filtered"
     /\ AnswerAccepted
     /\ sel_out.ai.selected_place_indices = <<>>) =>
        PlaceIds(DeterministicList) \subseteq PlaceIds(ReturnedOtherPlaces)

(***************************************************************************)
(* public_data_service.py: POI discovery.                                  *)
(*   Coordinates are whole micro-degrees; all places and search centres    *)
(*   lie on one meridian, where the spherical distance is R * |dlat|.      *)
(*   Distances are whole metres, rounded down.  relevance_score and        *)
(*   text_score are carried in thousandths, ai_relevance_score in units of *)
(*   1/4000, ratings in tenths of a star (-1: no rating).                   *)
(***************************************************************************)
\* the number of decimals Python prints for a coordinate of x micro-degrees:
\* str() drops trailing zeros but keeps one decimal
RECURSIVE trailing_zeros(_, _)
trailing_zeros(x, n) == IF n >= 5 \/ x % 10 # 0 THEN n ELSE trailing_zeros(x \div 10, n + 1)

str_decimals(x) == 6 - trailing_zeros(Abs(x), 0)

\* generated_for_location: f"{latitude},{longitude}"
location_tag(latitude, longitude) == [ tagged |-> TRUE, lat |-> latitude, lng |-> longitude ]

NoLocationTag == [ tagged |-> FALSE, lat |-> 0, lng |-> 0 ]

\* {"$regex": f"^{latitude:.6f},{longitude:.6f}"} against a stored tag: the
\* six-decimal latitude must be followed by the comma, and the six-decimal
\* longitude must be a prefix of the stored longitude
tag_matches(tag, latitude, longitude) ==
    /\ tag.tagged
    /\ tag.lat = latitude /\ str_decimals(tag.lat) = 6
    /\ tag.lng = longitude /\ str_decimals(tag.lng) = 6

\* count_documents over generated_for_location
count_location_pois(docs, latitude, longitude) ==
    Cardinality({ k \in DOMAIN docs : tag_matches(docs[k].generated_for_location, latitude, longitude) })

\* $geoNear / $centerSphere: metres on a sphere of radius 6378100 m
geo_distance(lat1, lng1, lat2, lng2) ==
    CASE lng1 = lng2 -> (Abs(lat1 - lat2) * 1113) \div 10000

\* the ranker's haversine: metres on a sphere of radius 6371000 m
ranking_distance(lat1, lng1, lat2, lng2) ==
    CASE lng1 = lng2 -> (Abs(lat1 - lat2) * 1112) \div 10000

\* name.lower().split(), for the names of the model
name_words(name) ==
    CASE name = "Cafe Roma"   -> {"cafe", "roma"}
      [] name = "Roma Bar"    -> {"roma", "bar"}
      [] name = "Roma Cafe"   -> {"roma", "cafe"}
      [] name = "City Museum" -> {"city", "museum"}
      [] name = "Old Park"    -> {"old", "park"}
      [] name = "Pane Vino"   -> {"pane", "vino"}
      [] name = "Vino Rosso"  -> {"vino", "rosso"}
      [] OTHER                -> {}

has_search_text(search_text) == search_text # NoneValue /\ search_text # ""

\* the words the text index holds for a category
category_words(category) ==
    CASE category = "catering.cafe"       -> {"catering", "cafe"}
      [] category = "catering.bar"        -> {"catering", "bar"}
      [] category = "catering.restaurant" -> {"catering", "restaurant"}
      [] category = "tourism.museum"      -> {"tourism", "museum"}
      [] category = "leisure.park"        -> {"leisure", "park"}
      [] OTHER                            -> {}

\* $text search of one word over the indexed name and category; the text
\* score of one matching word of a two-word name is 0.75
text_matches(doc, search_text) ==
    search_text \in name_words(doc.name) \cup category_words(doc.category)

\* a stored document with the fields the pipeline adds
found_poi(doc, distance_meters, text_score) ==
    [ poi_id |-> doc.poi_id, name |-> doc.name, lat |-> doc.lat, lng |-> doc.lng,
      category |-> doc.category, rating |-> doc.rating, source |-> doc.source,
      generated_for_location |-> doc.generated_for_location,
      distance_meters |-> distance_meters,
      text_score |-> text_score,
      relevance_score |-> (IF doc.rating = -1 THEN 30 ELSE doc.rating) * 200
                          + text_score + (1000000 \div (distance_meters + 1)),
      ranked |-> FALSE, ai_relevance_score |-> 0, category_diversity_penalty |-> 0 ]

\* stable sort, k1 descending then k2 ascending
RECURSIVE insert_sorted(_, _)
insert_sorted(sorted, x) ==
    IF sorted = <<>> THEN <<x>>
    ELSE IF x.k1 > Head(sorted).k1 \/ (x.k1 = Head(sorted).k1 /\ x.k2 < Head(sorted).k2)
    THEN <<x>> \o sorted
    ELSE <<Head(sorted)>> \o insert_sorted(Tail(sorted), x)

RECURSIVE sort_keyed(_, _)
sort_keyed(items, sorted) ==
    IF items = <<>> THEN sorted
    ELSE sort_keyed(Tail(items), insert_sorted(sorted, Head(items)))

\* _search_existing_pois(db, latitude, longitude, radius_meters, categories,
\*                       search_text, limit)
search_existing_pois(docs, latitude, longitude, radius_meters, categories, search_text, limit) ==
    IF limit * 2 <= 0 THEN <<>>
    ELSE
    LET near    == SelectSeq(docs, LAMBDA doc :
                       /\ geo_distance(doc.lat, doc.lng, latitude, longitude) <= radius_meters
                       /\ has_search_text(search_text) => text_matches(doc, search_text)
                       /\ categories # <<>> => SeqContains(categories, doc.category))
        text_score == IF has_search_text(search_text) THEN 750 ELSE 1000
        found   == [ k \in DOMAIN near |->
                       found_poi(near[k],
                                 geo_distance(near[k].lat, near[k].lng, latitude, longitude),
                                 text_score) ]
        keyed   == [ k \in DOMAIN found |->
                       [ k1 |-> found[k].relevance_score, k2 |-> found[k].distance_meters,
                         v |-> found[k] ] ]
        sorted  == sort_keyed(keyed, <<>>)
    IN  Take([ k \in DOMAIN sorted |-> sorted[k].v ], limit * 2)

\* (mutant) a sort stage that leaves the order of all documents open
tied_always(p, q) == TRUE

\* two documents the $sort stage does not tell apart: equal relevance_score
\* and equal distance_meters
tied(p, q) ==
    p.relevance_score = q.relevance_score /\ p.distance_meters = q.distance_meters

\* the orders of a few documents
orders_of(group) ==
    { [ k \in DOMAIN group |-> group[f[k]] ] :
        f \in { g \in [ DOMAIN group -> DOMAIN group ] :
                  \A a, b \in DOMAIN group : a # b => g[a] # g[b] } }

\* the orders in which the $sort stage may return a sorted list: documents
\* with equal sort keys come in any order
RECURSIVE tie_orders(_)
tie_orders(pois) ==
    IF pois = <<>> THEN { <<>> }
    ELSE LET n == CHOOSE m \in DOMAIN pois :
                      /\ \A k \in 1..m : tied(pois[k], pois[1])
                      /\ m < Len(pois) => ~tied(pois[m + 1], pois[1])
         IN  { g \o r : g \in orders_of(SubSeq(pois, 1, n)),
                        r \in tie_orders(SubSeq(pois, n + 1, Len(pois))) }

\* what db.public_pois.aggregate(pipeline) may return: the sorted documents,
\* ties in any order, cut by the $limit stage
search_outcomes(docs, latitude, longitude, radius_meters, categories, search_text, limit) ==
    IF limit * 2 <= 0 THEN { <<>> }
    ELSE { Take(q, limit * 2) :
             q \in tie_orders(search_existing_pois(docs, latitude, longitude, radius_meters,
                                                   categories, search_text, Len(docs) + 1)) }

\* Step 2: the threshold under which discovery asks the provider
min_threshold(location_pois, limit) ==
    IF location_pois > 0 THEN Min(10, limit \div 3) ELSE Min(25, limit \div 2)

\* the provider's categories that hold a place of the model, in the order of
\* the default category list
default_categories ==
    << "catering.restaurant", "catering.cafe", "catering.fast_food", "catering.bar",
       "tourism.attraction", "tourism.museum", "leisure.park", "commercial.supermarket" >>

\* the POI dictionary built from a provider feature
provider_poi(feature, category, latitude, longitude) ==
    [ poi_id |-> feature.place_id, name |-> feature.name,
      lat |-> feature.lat, lng |-> feature.lng,
      category |-> category, rating |-> feature.rating, source |-> "geoapify",
      generated_for_location |-> location_tag(latitude, longitude),
      distance_meters |-> -1, text_score |-> -1, relevance_score |-> -1,
      ranked |-> FALSE, ai_relevance_score |-> 0, category_diversity_penalty |-> 0 ]

RECURSIVE append_features(_, _, _, _, _, _)
append_features(all_pois, features, category, latitude, longitude, limit) ==
    IF features = <<>> \/ Len(all_pois) >= limit THEN all_pois
    ELSE append_features(Append(all_pois, provider_poi(Head(features), category, latitude, longitude)),
                         Tail(features), category, latitude, longitude, limit)

\* the half-height of the bounding box, in micro-degrees of latitude:
\* (2 * radius / 111000) * 1.5 degrees
RECURSIVE generate_categories(_, _, _, _, _, _, _, _)
generate_categories(world, categories, reply, latitude, longitude, radius_meters, limit, all_pois) ==
    IF categories = <<>> \/ Len(all_pois) >= limit THEN all_pois
    ELSE LET category == Head(categories)
             features == Take(SelectSeq(world, LAMBDA f :
                                  /\ category \in f.categories
                                  /\ f.lng = longitude
                                  /\ Abs(f.lat - latitude) <= (radius_meters * 3000) \div 111), 50)
         IN  generate_categories(world, Tail(categories), reply, latitude, longitude,
                                 radius_meters, limit,
                                 IF reply = "ok"
                                 THEN append_features(all_pois, features, category,
                                                      latitude, longitude, limit)
                                 ELSE all_pois)

\* _generate_pois_from_apis(latitude, longitude, radius_meters, categories, limit)
generate_pois_from_apis(api_key, world, reply, latitude, longitude, radius_meters, categories, limit) ==
    IF ~api_key THEN <<>>
    ELSE generate_categories(world,
                             IF categories = <<>> THEN default_categories ELSE categories,
                             reply, latitude, longitude, radius_meters, limit, <<>>)

\* the stored form of a POI: the PublicPOI fields
stored_doc(poi) ==
    [ poi_id |-> poi.poi_id, name |-> poi.name, lat |-> poi.lat, lng |-> poi.lng,
      category |-> poi.category, rating |-> poi.rating, source |-> poi.source,
      generated_for_location |-> poi.generated_for_location ]

RECURSIVE unique_new_pois(_, _, _)
unique_new_pois(new_pois, existing_ids, unique) ==
    IF new_pois = <<>> THEN unique
    ELSE LET poi == Head(new_pois)
         IN  IF poi.poi_id # "" /\ poi.poi_id \notin existing_ids
             THEN unique_new_pois(Tail(new_pois), existing_ids \cup {poi.poi_id}, Append(unique, poi))
             ELSE unique_new_pois(Tail(new_pois), existing_ids, unique)

\* _store_new_pois(db, new_pois, existing_pois): the collection afterwards
store_new_pois(docs, new_pois, existing_pois) ==
    LET existing_ids == { existing_pois[k].poi_id : k \in DOMAIN existing_pois }
        unique       == unique_new_pois(new_pois, existing_ids, <<>>)
    IN  docs \o [ k \in DOMAIN unique |-> stored_doc(unique[k]) ]

\* "freshness_score = 5 if poi.get('source') == 'geoapify' else 3", weighted
\* 0.1, in 1/4000 of a point
freshness_score(poi) == IF poi.source = "geoapify" THEN 2000 ELSE 1200

\* the ranker's score of one POI, given how many of its category precede it
ai_score(poi, distance, categories, category_count) ==
    LET base_score      == IF poi.relevance_score = -1 THEN 0 ELSE poi.relevance_score
        distance_score  == 10 * Max(0, 1000 - distance)
        category_score  == IF categories # <<>> /\ SeqContains(categories, poi.category)
                           THEN 6000 ELSE 3000
        rating_score    == IF poi.rating > 0 THEN 180 * poi.rating ELSE 3000
        text_score      == (IF poi.text_score = -1 THEN 1000 ELSE poi.text_score) \div 5
        diversity_penalty == Min(category_count * 2, 10)
    IN  base_score + distance_score + category_score + rating_score + text_score
        + freshness_score(poi) - 4000 * diversity_penalty

RECURSIVE rank_pois(_, _, _, _, _, _)
rank_pois(pois, latitude, longitude, categories, category_counts, enhanced_pois) ==
    IF pois = <<>> THEN enhanced_pois
    ELSE LET poi      == Head(pois)
             distance == IF poi.distance_meters = -1
                         THEN ranking_distance(latitude, longitude, poi.lat, poi.lng)
                         ELSE poi.distance_meters
             category_count == DictGet(category_counts, poi.category, 0)
             enhanced == [ poi EXCEPT !.distance_meters = distance,
                                      !.ranked = TRUE,
                                      !.ai_relevance_score =
                                          ai_score(poi, distance, categories, category_count),
                                      !.category_diversity_penalty = Min(category_count * 2, 10) ]
         IN  rank_pois(Tail(pois), latitude, longitude, categories,
                       DictSet(category_counts, poi.category, category_count + 1),
                       Append(enhanced_pois, enhanced))

\* _apply_intelligent_ranking(pois, latitude, longitude, search_text, categories)
apply_intelligent_ranking(pois, latitude, longitude, search_text, categories) ==
    LET enhanced == rank_pois(pois, latitude, longitude, categories, <<>>, <<>>)
        keyed    == [ k \in DOMAIN enhanced |->
                        [ k1 |-> enhanced[k].ai_relevance_score, k2 |-> 0, v |-> enhanced[k] ] ]
        sorted   == sort_keyed(keyed, <<>>)
    IN  [ k \in DOMAIN sorted |-> sorted[k].v ]

\* sqrt(lat_diff**2 + lng_diff**2) * 111000 < 50, with the differences in
\* degrees: squared, (dlat^2 + dlng^2) * 111^2 / 100 < 50000^2 / 100 in
\* micro-degrees and millimetres
within_50_rough_meters(p, q) ==
    LET lat_diff == p.lat - q.lat
        lng_diff == p.lng - q.lng
        squares  == lat_diff * lat_diff + lng_diff * lng_diff
    IN  /\ Abs(lat_diff) <= 450
        /\ Abs(lng_diff) <= 450
        /\ (squares \div 100) * 12321 + ((squares % 100) * 12321) \div 100 < 25000000

is_duplicate_of(p, q) ==
    within_50_rough_meters(p, q) /\ name_words(p.name) \cap name_words(q.name) # {}

\* _deduplicate_pois(pois)
RECURSIVE deduplicate_pois(_, _)
deduplicate_pois(pois, unique_pois) ==
    IF pois = <<>> THEN unique_pois
    ELSE deduplicate_pois(Tail(pois),
                          IF \E k \in DOMAIN unique_pois : is_duplicate_of(Head(pois), unique_pois[k])
                          THEN unique_pois
                          ELSE Append(unique_pois, Head(pois)))

\* (mutant) a fast path that returns everything the cache query found
cached_result_uncut(existing_pois, limit) == existing_pois

\* the fast path: "return existing_pois[:limit]"
cached_result(existing_pois, limit) == Take(existing_pois, limit)

\* Step 5 of a mutated discovery that forgets what the cache yielded
combine_new_only(existing_pois, new_pois) == new_pois

\* Step 5: all_pois = existing_pois + new_pois
combine_pois(existing_pois, new_pois) == existing_pois \o new_pois

\* Steps 5 and 6 of search_pois_near_location
rank_and_deduplicate(existing_pois, new_pois, latitude, longitude, search_text, categories, limit) ==
    Take(deduplicate_pois(apply_intelligent_ranking(combine_pois(existing_pois, new_pois),
                                                    latitude, longitude, search_text, categories),
                          <<>>),
         limit)

(***************************************************************************)
(* Inputs of POI discovery.                                                *)
(***************************************************************************)
\* What the place-data provider knows: places on the meridian of
\* 2.352219 degrees east.  g1 and g2 are two places 33 m apart whose names
\* share a word; g2 is listed under two categories.
ProviderWorld ==
    << [ place_id |-> "geoapify_g1", name |-> "Cafe Roma",   lat |-> 48856700, lng |-> 2352219,
         categories |-> {"catering.cafe"},                 rating |-> 40 ],
       [ place_id |-> "geoapify_g2", name |-> "Roma Bar",    lat |-> 48857000, lng |-> 2352219,
         categories |-> {"catering.cafe", "catering.bar"}, rating |-> 45 ],
       [ place_id |-> "geoapify_g3", name |-> "City Museum", lat |-> 48876000, lng |-> 2352219,
         categories |-> {"tourism.museum"},                rating |-> -1 ],
       [ place_id |-> "geoapify_g4", name |-> "Old Park",    lat |-> 48916000, lng |-> 2352219,
         categories |-> {"leisure.park"},                  rating |-> 35 ] >>

\* the collection before the first call: empty, or three imported records,
\* two of them at the same address
SeedCollections ==
    { <<>>,
      << [ poi_id |-> "osm_1", name |-> "Roma Cafe", lat |-> 48856800, lng |-> 2352219,
           category |-> "catering.cafe", rating |-> -1, source |-> "osm",
           generated_for_location |-> NoLocationTag ],
         [ poi_id |-> "osm_2", name |-> "Pane Vino", lat |-> 48856800, lng |-> 2352219,
           category |-> "catering.cafe", rating |-> -1, source |-> "osm",
           generated_for_location |-> NoLocationTag ],
         [ poi_id |-> "osm_3", name |-> "Vino Rosso", lat |-> 48857500, lng |-> 2352219,
           category |-> "catering.restaurant", rating |-> -1, source |-> "osm",
           generated_for_location |-> NoLocationTag ] >> }

\* search centres: one whose coordinates print with six decimals, one whose
\* latitude prints with four
\* a call asks for everything, for one category, or for a text
DiscoveryArgs ==
    { a \in [ centre : { [ latitude |-> 48856613, longitude |-> 2352219 ],
                         [ latitude |-> 48916600, longitude |-> 2352219 ] },
              radius_meters : { 5000 },
              categories : { <<>>, <<"catering.bar">> },
              search_text : { NoneValue, "roma" },
              limit : { 2, 4 } ] :
        a.categories = <<>> \/ a.search_text = NoneValue }

(***************************************************************************)
(* POI discovery as a state machine: up to MaxCalls calls of               *)
(* search_pois_near_location share the collection; a call that asks the    *)
(* provider yields to the other calls between its cache query and its      *)
(* insert (the asyncio.sleep of _generate_pois_from_apis).                 *)
(***************************************************************************)
InitDiscovery ==
    /\ cache \in SeedCollections
    /\ geoapify_api_key \in BOOLEAN
    /\ disc = NoDiscovery
    /\ est = NoEstimate
    /\ sreq = NoCreateRequest
    /\ archive = NoArchive
    /\ ranking = NoRanking
    /\ req = NoRequest
    /\ sched_in = NoScheduleCall
    /\ sched_out = NoSchedule
    /\ sel_in = NoSelectorCall
    /\ sel_mid = NoFiltering
    /\ sel_out = NoSelection

\* the database cannot be reached: the except clause returns []; call c may
\* start once the calls before it have started
DatabaseError(c) ==
    /\ disc[c].pc = "idle" /\ (c > 1 => disc[c - 1].pc # "idle")
    /\ \E args \in DiscoveryArgs :
         disc' = [ disc EXCEPT ![c] = [ IdleCall EXCEPT !.pc = "returned", !.args = args,
                                                        !.db_up = FALSE, !.path = "error" ] ]
    /\ UNCHANGED <<cache, geoapify_api_key, sched_in, sched_out, sel_in, sel_mid, sel_out, est, req, sreq, archive, ranking>>

\* Steps 1 and 2: query the collection; enough existing POIs are returned
\* as they are, otherwise the call goes on to ask the provider
StartDiscovery(c) ==
    /\ disc[c].pc = "idle" /\ (c > 1 => disc[c - 1].pc # "idle")
    /\ \E args \in DiscoveryArgs :
         LET latitude      == args.centre.latitude
             longitude     == args.centre.longitude
             location_pois == count_location_pois(cache, latitude, longitude)
         IN  \E existing_pois \in search_outcomes(cache, latitude, longitude,
                                                  args.radius_meters, args.categories,
                                                  args.search_text, args.limit * 3) :
               LET call == [ IdleCall EXCEPT !.args = args, !.location_pois = location_pois,
                                             !.existing_pois = existing_pois ]
               IN  disc' = [ disc EXCEPT ![c] =
                               IF Len(existing_pois) >= min_threshold(location_pois, args.limit)
                               THEN [ call EXCEPT !.pc = "returned", !.path = "fast",
                                                  !.pois = cached_result(existing_pois, args.limit) ]
                               ELSE [ call EXCEPT !.pc = "generating" ] ]
    /\ UNCHANGED <<cache, geoapify_api_key, sched_in, sched_out, sel_in, sel_mid, sel_out, est, req, sreq, archive, ranking>>

\* how the provider answers the category requests of one call
\* Steps 3 to 6: ask the provider, store what is new, rank, deduplicate
FinishDiscovery(c) ==
    /\ disc[c].pc = "generating"
    /\ \E reply \in IF geoapify_api_key THEN { "ok", "fail" } ELSE {"none"} :
         LET args     == disc[c].args
             new_pois == generate_pois_from_apis(geoapify_api_key, ProviderWorld, reply,
                                                 args.centre.latitude, args.centre.longitude,
                                                 args.radius_meters, args.categories, 200)
         IN  /\ cache' = IF new_pois # <<>>
                         THEN store_new_pois(cache, new_pois, disc[c].existing_pois)
                         ELSE cache
             /\ disc' = [ disc EXCEPT ![c] =
                            [ @ EXCEPT !.pc = "returned", !.path = "generation", !.reply = reply,
                                       !.pois = rank_and_deduplicate(
                                                    disc[c].existing_pois, new_pois,
                                                    args.centre.latitude, args.centre.longitude,
                                                    args.search_text, args.categories,
                                                    args.limit) ] ]
    /\ UNCHANGED <<geoapify_api_key, sched_in, sched_out, sel_in, sel_mid, sel_out, est, req, sreq, archive, ranking>>

NextDiscovery ==
    \E c \in 1..MaxCalls : DatabaseError(c) \/ StartDiscovery(c) \/ FinishDiscovery(c)

SpecDiscovery == InitDiscovery /\ [][NextDiscovery]_vars

(***************************************************************************)
(* Properties of POI discovery (checked under SpecDiscovery).              *)
(***************************************************************************)
Returned(c) == disc[c].pc = "returned"

NoNearNamesakes(pois) ==
    \A a, b \in DOMAIN pois : a # b => ~is_duplicate_of(pois[a], pois[b])

\* C3: in every list search_pois_near_location returns, on the fast path and
\* on the generation path, whatever duplicate records the collection holds,
\* no two places are within 50 metres of each other and share a name word.
C3_ResultsDeduplicated ==
    \A c \in 1..MaxCalls : Returned(c) => NoNearNamesakes(disc[c].pois)

\* the provider gave nothing to call c: no key, or every category call failed
ProviderGaveNothing(c) ==
    ~geoapify_api_key \/ (disc[c].path = "generation" /\ disc[c].reply = "fail")

FromCacheQuery(c) ==
    \A k \in DOMAIN disc[c].pois :
        \E j \in DOMAIN disc[c].existing_pois :
            stored_doc(disc[c].pois[k]) = stored_doc(disc[c].existing_pois[j])

\* C10: a call never ends by raising; when the provider is unconfigured or
\* every category call failed, the call returns, every returned place comes
\* from the cache query, and the result is non-empty whenever the cache query
\* yielded a candidate.
C10_CacheOnlyWhenProviderFails ==
    \A c \in 1..MaxCalls :
        /\ disc[c].pc \in {"idle", "generating", "returned"}
        /\ (Returned(c) /\ ProviderGaveNothing(c)) =>
               /\ FromCacheQuery(c)
               /\ disc[c].existing_pois # <<>> => disc[c].pois # <<>>

C10_Witness ==
    \E c \in 1..MaxCalls :
        /\ Returned(c) /\ disc[c].path = "generation" /\ ProviderGaveNothing(c)
        /\ disc[c].existing_pois # <<>>
        /\ disc[c].pois # <<>>
        /\ FromCacheQuery(c)

\* calls c and c + 1 ran one after the other on a warm cache with the same
\* arguments, and no call has written to the collection
TwiceInARow(c) ==
    /\ Returned(c) /\ disc[c].path = "fast"
    /\ Returned(c + 1) /\ disc[c + 1].path = "fast"
    /\ disc[c + 1].args = disc[c].args
    /\ \A d \in 1..MaxCalls : disc[d].path # "generation"

C16_OneRecordPerIdentifier ==
    \A a, b \in DOMAIN cache : a # b => cache[a].poi_id # cache[b].poi_id

\* the collection holds a record some call generated for this centre
GeneratedFor(centre) ==
    \E k \in DOMAIN cache :
        cache[k].generated_for_location = location_tag(centre.latitude, centre.longitude)

\* C19: once a call at a centre has generated and stored a candidate, every
\* later call at that centre counts the stored records as generated for its
\* location and decides with the lower threshold min(10, limit // 3).
C19_KnownLocationUsesLowerThreshold ==
    [][ \A c \in 1..MaxCalls :
          (/\ disc[c].pc = "idle"
           /\ disc'[c].pc # "idle"
           /\ disc'[c].db_up
           /\ GeneratedFor(disc'[c].args.centre)) =>
              /\ disc'[c].location_pois > 0
              /\ disc'[c].path = "fast" <=>
                     Len(disc'[c].existing_pois) >= Min(10, disc'[c].args.limit \div 3) ]_vars

\* C20: a call whose cache query meets the threshold asks the provider
\* nothing, leaves the collection as it is, and returns the first `limit`
\* candidates of the cache query.
C20_FastPathReadsOnly ==
    [][ \A c \in 1..MaxCalls :
          (disc[c].pc = "idle" /\ disc'[c].path = "fast") =>
              /\ disc'[c].pc = "returned"
              /\ disc'[c].reply = "none"
              /\ cache' = cache
              /\ disc'[c].pois = Take(disc'[c].existing_pois, disc'[c].args.limit) ]_vars

\* a fast-path call whose cache query found more than `limit` candidates,
\* with the provider configured
C20_Witness ==
    \E c \in 1..MaxCalls :
        /\ Returned(c) /\ disc[c].path = "fast"
        /\ geoapify_api_key
        /\ Len(disc[c].existing_pois) > disc[c].args.limit
        /\ Len(disc[c].pois) = disc[c].args.limit

\* the candidates call c generated itself, and the pool its ranker was given
GeneratedBy(c) ==
    generate_pois_from_apis(geoapify_api_key, ProviderWorld, disc[c].reply,
                            disc[c].args.centre.latitude, disc[c].args.centre.longitude,
                            disc[c].args.radius_meters, disc[c].args.categories, 200)

Generated(c) == Returned(c) /\ disc[c].path = "generation"

\* C25: in a call that generates (a cache miss), every candidate generated
\* in that call gets a strictly larger freshness bonus than every candidate
\* the call read from the collection, also when that candidate was itself
\* generated and stored by an earlier call.
C25_GeneratedFresherThanCached ==
    \A c \in 1..MaxCalls :
        Generated(c) =>
            \A a \in DOMAIN GeneratedBy(c), b \in DOMAIN disc[c].existing_pois :
                freshness_score(GeneratedBy(c)[a]) > freshness_score(disc[c].existing_pois[b])

(***************************************************************************)
(* The travel-time estimate on its own: estimate_travel_time is called for *)
(* two distances and one travel mode.                                      *)
(***************************************************************************)
\* distances are multiples of 208.5 m: the walking floor of 5 minutes ends
\* at 416.7 m, the floor of 3 minutes ends at 2 km for driving
InitEstimate ==
    /\ \E travel_mode \in TravelModes,
          d1 \in { k * 208500 : k \in 0..MaxDistanceSteps },
          d2 \in { k * 208500 : k \in 0..MaxDistanceSteps } :
         est = [ NoEstimate EXCEPT !.travel_mode = travel_mode,
                                   !.distance_1 = d1, !.distance_2 = d2 ]
    /\ sched_in = NoScheduleCall
    /\ sched_out = NoSchedule
    /\ sel_in = NoSelectorCall
    /\ sel_mid = NoFiltering
    /\ sel_out = NoSelection
    /\ cache = <<>>
    /\ geoapify_api_key = FALSE
    /\ disc = NoDiscovery
    /\ req = NoRequest
    /\ sreq = NoCreateRequest
    /\ archive = NoArchive
    /\ ranking = NoRanking

EstimateTravelTime ==
    /\ est.pc = "idle"
    /\ est' = [ est EXCEPT !.pc = "done",
                           !.minutes_1 = estimate_travel_time(est.distance_1, est.travel_mode),
                           !.minutes_2 = estimate_travel_time(est.distance_2, est.travel_mode) ]
    /\ UNCHANGED <<sched_in, sched_out, sel_in, sel_mid, sel_out, cache, geoapify_api_key, disc, req, sreq, archive, ranking>>

NextEstimate == EstimateTravelTime

SpecEstimate == InitEstimate /\ [][NextEstimate]_vars

\* C13: for one travel mode the estimated travel time does not decrease when
\* the distance grows, and it is at least 5 minutes for walking and at least
\* 3 minutes for every other mode.
C13_EstimateMonotoneWithFloor ==
    est.pc = "done" =>
        /\ est.distance_1 <= est.distance_2 => est.minutes_1 <= est.minutes_2
        /\ est.minutes_1 >= (IF est.travel_mode = "walking" THEN 5 ELSE 3)
        /\ est.minutes_2 >= (IF est.travel_mode = "walking" THEN 5 ELSE 3)

\* a driving estimate held at the floor next to one above the floor
C13_Witness ==
    /\ est.pc = "done"
    /\ est.travel_mode = "driving"
    /\ est.distance_1 < est.distance_2
    /\ est.minutes_1 = 3
    /\ est.minutes_2 > 3

(***************************************************************************)
(* routes/schedules.py: generate_schedule_from_location.  The route asks   *)
(* POI discovery for places around the request's point with a growing      *)
(* radius, answers 404 when nothing was found, and otherwise hands the     *)
(* places to optimize_place_order and generate_schedule.                   *)
(***************************************************************************)
\* One whole call of search_pois_near_location, provider request included:
\* the lists it can return, each with the collection it leaves behind.
search_pois_near_location(docs, api_key, db_up, latitude, longitude, radius_meters, categories, search_text, limit) ==
    IF ~db_up
    THEN { [ pois |-> <<>>, docs |-> docs ] }
    ELSE LET location_pois == count_location_pois(docs, latitude, longitude)
             answer(existing_pois) ==
                 IF Len(existing_pois) >= min_threshold(location_pois, limit)
                 THEN { [ pois |-> cached_result(existing_pois, limit), docs |-> docs ] }
                 ELSE { LET new_pois == generate_pois_from_apis(api_key, ProviderWorld, reply,
                                                                latitude, longitude, radius_meters,
                                                                categories, 200)
                        IN  [ pois |-> rank_and_deduplicate(existing_pois, new_pois, latitude,
                                                            longitude, search_text, categories,
                                                            limit),
                              docs |-> IF new_pois # <<>>
                                       THEN store_new_pois(docs, new_pois, existing_pois)
                                       ELSE docs ] :
                        reply \in IF api_key THEN { "ok", "fail" } ELSE {"none"} }
         IN  UNION { answer(existing_pois) :
                       existing_pois \in search_outcomes(docs, latitude, longitude, radius_meters,
                                                         categories, search_text, limit * 3) }

\* str.strip() on the prompts of the model
strip(prompt) ==
    CASE prompt = "  museums " -> "museums"
      [] OTHER                 -> prompt

\* "if request.prompt and len(request.prompt.strip()) > 10"
search_text_of(prompt) ==
    IF prompt # NoneValue /\ prompt # "" /\ stripped_length(prompt) > 10
    THEN strip(prompt)
    ELSE NoneValue

radius_multipliers == <<1, 2, 5>>

max_attempts == Len(radius_multipliers)

\* "limit=max(100, request.max_places * 3)"
discovery_limit(max_places) == Max(100, max_places * 3)

\* Step 3: a POI as a place dictionary.  The records of the model carry a
\* subcategory of None, and coordinates that are whole multiples of
\* 1/10000 degree, the unit of the schedule builder's distances.
place_of_poi(poi) ==
    [ id |-> poi.poi_id, category |-> poi.category, placeType |-> NoneValue,
      ai_review |-> "", duration_minutes |-> 0,
      lat |-> poi.lat \div 100, lng |-> poi.lng \div 100 ]

\* Step 4: the marker put first when include_current_location is set
current_location_place(latitude, longitude) ==
    [ id |-> "current-location", category |-> "unknown", placeType |-> "point_of_interest",
      ai_review |-> "", duration_minutes |-> 0,
      lat |-> latitude \div 100, lng |-> longitude \div 100 ]

places_of(nearby_pois, include_current_location, latitude, longitude) ==
    LET places == [ k \in DOMAIN nearby_pois |-> place_of_poi(nearby_pois[k]) ]
    IN  IF include_current_location
        THEN <<current_location_place(latitude, longitude)>> \o places
        ELSE places

\* optimize_place_order(places, start_time, prompt_text, travel_mode, end_time, preferences)
optimize_place_order(places, preferences, prompt_text, ai) ==
    IF is_short_list(places)
    THEN [ status |-> "returned", places |-> places, day_overview |-> NoneValue, ai |-> NoAnswer ]
    ELSE optimize_and_combine(places, filter_other_places(places, preferences, prompt_text), ai)

\* Step 2: the message of the 404 answer
no_pois_detail(total_pois) ==
    IF total_pois = 0
    THEN "No POI data available in database. Please import POI data first."
    ELSE "No POIs found within the search radius of your location. Database contains POIs in other areas."

(***************************************************************************)
(* Inputs of the location route.                                           *)
(***************************************************************************)
\* the planning collaborator of the route: no key configured, or a failed call
RouteAiAnswers == { NoAnswer, [ NoAnswer EXCEPT !.kind = "error" ] }

(***************************************************************************)
(* The location route as a state machine: a request arrives (Init); each   *)
(* awaited discovery call is one step, then the request is answered.  The  *)
(* database may be unreachable at any of its uses.  No routing key is      *)
(* configured, so generate_schedule estimates every leg.                   *)
(***************************************************************************)
\* request points: one next to the places the collection and the provider
\* know, one 32 km north of them
InitLocation ==
    /\ cache \in SeedCollections
    /\ geoapify_api_key \in BOOLEAN
    /\ \E centre \in { [ latitude |-> 48856600, longitude |-> 2352219 ],
                       [ latitude |-> 49150000, longitude |-> 2352219 ] },
          categories \in { <<>>, <<"catering.bar">> },
          prompt \in { NoneValue, "  museums ", "a quiet day of art" }, include_current_location \in BOOLEAN :
         req = [ NoRequest EXCEPT !.pc = "searching", !.attempt = 1,
                                  !.latitude = centre.latitude,
                                  !.longitude = centre.longitude,
                                  !.categories = categories, !.prompt = prompt,
                                  !.include_current_location = include_current_location ]
    /\ disc = NoDiscovery
    /\ est = NoEstimate
    /\ sreq = NoCreateRequest
    /\ archive = NoArchive
    /\ ranking = NoRanking
    /\ sched_in = NoScheduleCall
    /\ sched_out = NoSchedule
    /\ sel_in = NoSelectorCall
    /\ sel_mid = NoFiltering
    /\ sel_out = NoSelection

\* one pass of "for attempt in range(max_attempts)" up to its first test
SearchAttempt ==
    /\ req.pc = "searching"
    /\ LET search_radius == req.radius_meters * radius_multipliers[req.attempt]
       IN  \E db_up \in BOOLEAN :
             \E found \in search_pois_near_location(cache, geoapify_api_key, db_up,
                                                    req.latitude, req.longitude, search_radius,
                                                    req.categories, search_text_of(req.prompt),
                                                    discovery_limit(req.max_places)) :
               /\ cache' = found.docs
               /\ req' = [ req EXCEPT
                             !.search_radius = search_radius,
                             !.nearby_pois = found.pois,
                             !.pc = IF Len(found.pois) >= 3 THEN "searched"
                                    ELSE IF req.attempt = max_attempts THEN "last_attempt"
                                    ELSE "searching",
                             !.attempt = IF Len(found.pois) >= 3 \/ req.attempt = max_attempts
                                         THEN req.attempt ELSE req.attempt + 1 ]
    /\ UNCHANGED <<geoapify_api_key, disc, est, sched_in, sched_out, sel_in, sel_mid, sel_out, sreq, archive, ranking>>

\* "For last attempt, try without category filter to find any POIs"
SearchWithoutFilters ==
    /\ req.pc = "last_attempt"
    /\ \E db_up \in BOOLEAN :
         \E found \in search_pois_near_location(cache, geoapify_api_key, db_up,
                                                req.latitude, req.longitude, req.search_radius,
                                                <<>>, NoneValue,
                                                discovery_limit(req.max_places)) :
           /\ cache' = found.docs
           /\ req' = [ req EXCEPT !.nearby_pois = found.pois, !.pc = "searched" ]
    /\ UNCHANGED <<geoapify_api_key, disc, est, sched_in, sched_out, sel_in, sel_mid, sel_out, sreq, archive, ranking>>

\* Step 2: "if not nearby_pois": count the collection and raise
\* HTTPException(404); a count that raises ends in the generic handler's
\* HTTPException(500)
ReportNoPois ==
    /\ req.pc = "searched"
    /\ req.nearby_pois = <<>>
    /\ \E db_up \in BOOLEAN :
         req' = IF db_up
                THEN [ req EXCEPT !.pc = "done", !.status_code = 404,
                                  !.total_pois = Len(cache),
                                  !.detail = no_pois_detail(Len(cache)) ]
                ELSE [ req EXCEPT !.pc = "done", !.status_code = 500,
                                  !.detail = "Failed to generate location-based schedule" ]
    /\ UNCHANGED <<cache, geoapify_api_key, disc, est, sched_in, sched_out, sel_in, sel_mid, sel_out, sreq, archive, ranking>>

\* Steps 3 to 7: places from the POIs, optimize_place_order, generate_schedule
PlanSchedule ==
    /\ req.pc = "searched"
    /\ req.nearby_pois # <<>>
    /\ \E ai \in RouteAiAnswers :
         LET places    == places_of(req.nearby_pois, req.include_current_location,
                                    req.latitude, req.longitude)
             optimized == optimize_place_order(places, NoPreferences, req.prompt, ai)
             schedule  == generate_schedule(optimized.places, <<9, 0>>, "walking", <<19, 0>>,
                                            FALSE, <<>>)
         IN  req' = IF schedule.status = "ok"
                    THEN [ req EXCEPT !.pc = "done", !.status_code = 200,
                                      !.schedule = schedule,
                                      !.original_place_count = Len(places),
                                      !.selected_place_count = Len(optimized.places) ]
                    ELSE [ req EXCEPT !.pc = "done", !.status_code = 500,
                                      !.detail = "Failed to generate location-based schedule" ]
    /\ UNCHANGED <<cache, geoapify_api_key, disc, est, sched_in, sched_out, sel_in, sel_mid, sel_out, sreq, archive, ranking>>

NextLocation == SearchAttempt \/ SearchWithoutFilters \/ ReportNoPois \/ PlanSchedule

SpecLocation == InitLocation /\ [][NextLocation]_vars

(***************************************************************************)
(* Properties of the location route (checked under SpecLocation).          *)
(***************************************************************************)
\* the request has been answered after discovery attempts that all found nothing
AnsweredWithNoCandidates == req.pc = "done" /\ req.nearby_pois = <<>>

\* C11: when every discovery attempt of a location-based request ends with
\* zero candidates, the request ends with the 404 answer, never with the
\* generic 500 answer or with a schedule, and the 404 message tells an empty
\* collection from a collection whose POIs are all elsewhere.
C11_NoCandidatesIsInsufficientData ==
    AnsweredWithNoCandidates =>
        /\ req.status_code = 404
        /\ req.detail = no_pois_detail(Len(cache))
        /\ (Len(cache) = 0) # (req.detail = no_pois_detail(1))

(***************************************************************************)
(* routes/schedules.py: create_schedule.  A request with its own places:   *)
(* a new schedule (no day_overview) needs three places and goes through    *)
(* optimize_place_order; an update keeps the order of its places.          *)
(***************************************************************************)
\* "is_new_schedule = request.day_overview is None" and
\* "if is_new_schedule and len(request.places) < 3"
too_few_places(places, day_overview) == day_overview = NoneValue /\ Len(places) < 3

\* "except Exception as e: raise HTTPException(status_code=500, ...)": the
\* handler's only except clause, which every exception raised in the try
\* block reaches, an HTTPException included
reraised(status_code, detail) ==
    [ status_code |-> 500, detail |-> "Failed to generate schedule" ]

\* the place lists of a request: the candidate lists of the selector, each
\* place with coordinates along the meridian
CreatePlaceLists ==
    { [ k \in DOMAIN l |->
          [ id |-> l[k].id, category |-> l[k].category, placeType |-> l[k].placeType,
            pos |-> l[k].pos, ai_review |-> l[k].ai_review,
            duration_minutes |-> l[k].duration_minutes,
            lat |-> 488000 + l[k].pos, lng |-> 23522 ] ] : l \in CandidateLists }

(***************************************************************************)
(* create_schedule as a state machine: the request arrives (Init), is      *)
(* validated, its places are selected, and the schedule is built.  No      *)
(* routing key is configured.  day_overview is absent, empty, or the       *)
(* overview of an earlier schedule; preferences are absent or given.       *)
(***************************************************************************)
InitCreate ==
    /\ \E places \in CreatePlaceLists,
          day_overview \in { NoneValue, "", "A day of food and art." },
          preferences \in { NoPreferences,
                            [ present |-> TRUE, must_include |-> <<>>, max_places |-> 3,
                              balance_mode |-> "balanced", meal_requirements |-> FALSE ] } :
         sreq = [ NoCreateRequest EXCEPT !.pc = "received", !.places = places,
                                         !.day_overview = day_overview,
                                         !.preferences = preferences ]
    /\ archive = NoArchive
    /\ ranking = NoRanking
    /\ req = NoRequest
    /\ cache = <<>>
    /\ geoapify_api_key = FALSE
    /\ disc = NoDiscovery
    /\ est = NoEstimate
    /\ sched_in = NoScheduleCall
    /\ sched_out = NoSchedule
    /\ sel_in = NoSelectorCall
    /\ sel_mid = NoFiltering
    /\ sel_out = NoSelection

\* "Validate minimum place requirement for new schedules"
ValidateRequest ==
    /\ sreq.pc = "received"
    /\ sreq' = IF too_few_places(sreq.places, sreq.day_overview)
               THEN LET answer == reraised(400, "At least 3 places are required to create a new schedule")
                    IN  [ sreq EXCEPT !.pc = "done", !.status_code = answer.status_code,
                                      !.detail = answer.detail ]
               ELSE [ sreq EXCEPT !.pc = "validated" ]
    /\ UNCHANGED <<sched_in, sched_out, sel_in, sel_mid, sel_out, cache, geoapify_api_key,
                   disc, est, req, archive, ranking>>

\* "Process places": an update keeps its places, otherwise optimize_place_order
SelectPlaces ==
    /\ sreq.pc = "validated"
    /\ IF sreq.day_overview # NoneValue /\ sreq.day_overview # ""
       THEN sreq' = [ sreq EXCEPT !.pc = "selected", !.optimized_places = sreq.places,
                                  !.optimized_overview = sreq.day_overview ]
       ELSE \E ai \in RouteAiAnswers :
              LET optimized == optimize_place_order(sreq.places, sreq.preferences,
                                                    sreq.prompt, ai)
              IN  sreq' = [ sreq EXCEPT !.pc = "selected", !.optimize_started = TRUE,
                                        !.optimized_places = optimized.places,
                                        !.optimized_overview = optimized.day_overview ]
    /\ UNCHANGED <<sched_in, sched_out, sel_in, sel_mid, sel_out, cache, geoapify_api_key,
                   disc, est, req, archive, ranking>>

\* "Generate the schedule with routing information" and answer
BuildSchedule ==
    /\ sreq.pc = "selected"
    /\ LET schedule == generate_schedule(sreq.optimized_places, <<9, 0>>, "walking", <<19, 0>>,
                                         FALSE, <<>>)
       IN  sreq' = IF schedule.status = "ok"
                   THEN [ sreq EXCEPT !.pc = "done", !.generate_started = TRUE,
                                      !.status_code = 200, !.schedule = schedule,
                                      !.selected_place_count = Len(sreq.optimized_places) ]
                   ELSE LET answer == reraised(500, "Failed to generate schedule")
                        IN  [ sreq EXCEPT !.pc = "done", !.generate_started = TRUE,
                                          !.status_code = answer.status_code,
                                          !.detail = answer.detail ]
    /\ UNCHANGED <<sched_in, sched_out, sel_in, sel_mid, sel_out, cache, geoapify_api_key,
                   disc, est, req, archive, ranking>>

NextCreate == ValidateRequest \/ SelectPlaces \/ BuildSchedule

SpecCreate == InitCreate /\ [][NextCreate]_vars

(***************************************************************************)
(* Properties of create_schedule (checked under SpecCreate).               *)
(***************************************************************************)
\* C27: a new-schedule request (no day_overview) with fewer than 3 places is
\* answered with status 400 and the message that at least 3 places are
\* required, and neither optimize_place_order nor generate_schedule is
\* called for it.
C27_TooFewPlacesIsRejectedWith400 ==
    (sreq.pc = "done" /\ sreq.day_overview = NoneValue /\ Len(sreq.places) < 3) =>
        /\ sreq.status_code = 400
        /\ sreq.detail = "At least 3 places are required to create a new schedule"
        /\ ~sreq.optimize_started
        /\ ~sreq.generate_started

(***************************************************************************)
(* routes/archived_lists.py: save_schedule_to_archive.  Each request reads *)
(* the user's lists (find_one), tests the limit on what it read, and then  *)
(* updates the stored list (update_one): two database operations.          *)
(***************************************************************************)
\* requests that can be in progress at the same time
MaxSavers == 2

\* requests started for the list in one behaviour
MaxSaves == 3

\* "Handle slot replacement or addition": the stored array after update_one,
\* from the stored array and from what the request read earlier.
\*   set_element: {"$set": {"lists.$.saved_schedules.<slot_index>": saved}}
\*     sets one element of the stored array, which the database pads with
\*     nulls when the array is shorter;
\*   extended: "while len(current_schedules) <= slot_index:
\*     current_schedules.append(None)", "current_schedules[slot_index] = ..."
\*     and {"$set": {"lists.$.saved_schedules": current_schedules}};
\*   otherwise {"$push": {"lists.$.saved_schedules": saved}}.
updated(saved_schedules, current_schedules, replace_existing_slot, saved) ==
    LET slot_index  == replace_existing_slot - 1
        set_element ==
            IF slot_index < Len(saved_schedules)
            THEN [ saved_schedules EXCEPT ![slot_index + 1] = saved ]
            ELSE saved_schedules
                   \o [ k \in 1..(slot_index - Len(saved_schedules)) |-> <<"null", 0>> ]
                   \o << saved >>
        extended ==
            [ k \in 1..(slot_index + 1) |->
                IF k = slot_index + 1 THEN saved
                ELSE IF k <= Len(current_schedules) THEN current_schedules[k]
                ELSE <<"null", 0>> ]
    IN  IF replace_existing_slot >= 1 /\ replace_existing_slot <= 3
        THEN IF slot_index < Len(current_schedules) THEN set_element ELSE extended
        ELSE Append(saved_schedules, saved)

\* the stored list holds up to three schedules saved earlier, the state the
\* handler leaves behind when its requests come one by one
InitArchive ==
    /\ \E n \in 0..3 :
         archive = [ saved_schedules |-> [ k \in 1..n |-> <<"saved", 0>> ],
                     saves |-> [ c \in 1..MaxSavers |->
                                 [ pc |-> "idle", replace_existing_slot |-> 0,
                                   current_schedules |-> <<>>, status_code |-> 0,
                                   slot_number |-> 0 ] ],
                     started |-> 0 ]
    /\ sreq = NoCreateRequest
    /\ ranking = NoRanking
    /\ req = NoRequest
    /\ cache = <<>>
    /\ geoapify_api_key = FALSE
    /\ disc = NoDiscovery
    /\ est = NoEstimate
    /\ sched_in = NoScheduleCall
    /\ sched_out = NoSchedule
    /\ sel_in = NoSelectorCall
    /\ sel_mid = NoFiltering
    /\ sel_out = NoSelection

\* the request of saver c arrives: find_one and the limit test, "if
\* len(current_schedules) >= 3 and not request.replace_existing_slot";
\* replace_existing_slot is 1, 2, 3 or, for None, 0
ReadList(c) ==
    /\ archive.saves[c].pc \in {"idle", "done"}
    /\ archive.started < MaxSaves
    /\ \E replace_existing_slot \in 0..3 :
         LET current_schedules == archive.saved_schedules
         IN  archive' =
               [ archive EXCEPT
                   !.started = archive.started + 1,
                   !.saves[c] =
                     IF Len(current_schedules) >= 3 /\ replace_existing_slot = 0
                     THEN [ pc |-> "done", replace_existing_slot |-> replace_existing_slot,
                            current_schedules |-> <<>>, status_code |-> 400,
                            slot_number |-> 0 ]
                     ELSE [ pc |-> "read", replace_existing_slot |-> replace_existing_slot,
                            current_schedules |-> current_schedules, status_code |-> 0,
                            slot_number |-> 0 ] ]
    /\ UNCHANGED <<sched_in, sched_out, sel_in, sel_mid, sel_out, cache, geoapify_api_key,
                   disc, est, req, sreq, ranking>>

\* update_one of saver c and its answer; the saved schedule carries a fresh
\* schedule_id, and "slot_number" is replace_existing_slot or
\* len(current_schedules) + 1
WriteList(c) ==
    /\ archive.saves[c].pc = "read"
    /\ LET save == archive.saves[c]
       IN  archive' =
             [ archive EXCEPT
                 !.saved_schedules = updated(archive.saved_schedules, save.current_schedules,
                                             save.replace_existing_slot, <<"saved", c>>),
                 !.saves[c] =
                   [ pc |-> "done", replace_existing_slot |-> save.replace_existing_slot,
                     current_schedules |-> <<>>, status_code |-> 200,
                     slot_number |-> IF save.replace_existing_slot # 0
                                     THEN save.replace_existing_slot
                                     ELSE Len(save.current_schedules) + 1 ] ]
    /\ UNCHANGED <<sched_in, sched_out, sel_in, sel_mid, sel_out, cache, geoapify_api_key,
                   disc, est, req, sreq, ranking>>

NextArchive == \E c \in 1..MaxSavers : ReadList(c) \/ WriteList(c)

SpecArchive == InitArchive /\ [][NextArchive]_vars

(***************************************************************************)
(* Properties of the archive (checked under SpecArchive).                  *)
(***************************************************************************)
\* C26: under every sequence and interleaving of save_schedule_to_archive
\* requests for one list, each a read followed by a separate write, the
\* list's saved_schedules never has more than 3 entries.
C26_AtMostThreeSavedSchedules == Len(archive.saved_schedules) <= 3

(***************************************************************************)
(* public_data_service.py: _apply_intelligent_ranking on its own.  The     *)
(* pool is built as search_pois_near_location builds it: the result of the *)
(* cache query followed by what the provider gave, category by category.   *)
(***************************************************************************)
\* The provider knows the places of ProviderWorld and an unrated park 1.5 km
\* north of the centre; its answer holds at most three of them, in any
\* order.  "all_pois = existing_pois + new_pois".
InitRanking ==
    /\ \E docs \in SeedCollections,
          world \in DistinctSeqs({ ProviderWorld[k] : k \in DOMAIN ProviderWorld } \cup
                                 { [ place_id |-> "geoapify_g5", name |-> "Green Park",
                                     lat |-> 48870100, lng |-> 2352219,
                                     categories |-> {"leisure.park"}, rating |-> -1 ] }, 3) :
         \E existing_pois \in search_outcomes(docs, 48856613, 2352219, 5000, <<>>,
                                              NoneValue, 12) :
            ranking = [ NoRanking EXCEPT
                          !.pc = "pool",
                          !.pois = combine_pois(existing_pois,
                                     generate_pois_from_apis(TRUE, world, "ok", 48856613,
                                                             2352219, 5000, <<>>, 200)),
                          !.latitude = 48856613,
                          !.longitude = 2352219 ]
    /\ sreq = NoCreateRequest
    /\ archive = NoArchive
    /\ req = NoRequest
    /\ cache = <<>>
    /\ geoapify_api_key = FALSE
    /\ disc = NoDiscovery
    /\ est = NoEstimate
    /\ sched_in = NoScheduleCall
    /\ sched_out = NoSchedule
    /\ sel_in = NoSelectorCall
    /\ sel_mid = NoFiltering
    /\ sel_out = NoSelection

\* Step 5 of search_pois_near_location: rank the pool
ApplyRanking ==
    /\ ranking.pc = "pool"
    /\ ranking' = [ ranking EXCEPT !.pc = "ranked",
                      !.enhanced_pois = apply_intelligent_ranking(ranking.pois, ranking.latitude,
                                                                  ranking.longitude, NoneValue,
                                                                  ranking.categories) ]
    /\ UNCHANGED <<sched_in, sched_out, sel_in, sel_mid, sel_out, cache, geoapify_api_key,
                   disc, est, req, sreq, archive>>

SpecRanking == InitRanking /\ [][ApplyRanking]_vars

(***************************************************************************)
(* Properties of the ranker (checked under SpecRanking).                   *)
(***************************************************************************)
\* C24: in the ranker's output two candidates with the same final score
\* stand in the order of their distance from the search centre, the closer
\* one first, whatever their order in the pool.
C24_TiesBrokenByCloserDistance ==
    ranking.pc = "ranked" =>
        \A i, j \in DOMAIN ranking.enhanced_pois :
            (i < j /\ ranking.enhanced_pois[i].ai_relevance_score
                        = ranking.enhanced_pois[j].ai_relevance_score)
                => ranking.enhanced_pois[i].distance_meters
                     <= ranking.enhanced_pois[j].distance_meters

====
